---- MODULE Spec2Model ----
(***************************************************************************)
(* The structural scanning scripts of PriorisProject:                      *)
(*   analyze_methods.py   analyze_method_sizes  (method boundary detector) *)
(*   analyze_project.py   ProjectAnalyzer       (sizes, impact ranking)    *)
(*   analyze_dead_code.py DeadCodeAnalyzer      (dead code, duplications)  *)
(*   generate_final_report.py generate_refactoring_plan (impact ranking)   *)
(*   analyze_solid.py     SOLIDAnalyzer         (SRP, DIP, OCP checks)     *)
(* Text is a tuple of one-character strings; a file is the tuple of its    *)
(* lines.  The regular expressions of the source are kept as expression    *)
(* trees and matched by Ends, which yields every way a pattern can match.  *)
(***************************************************************************)
EXTENDS Integers, Sequences, FiniteSets, TLC

\* ------------------------------------------------------------------ text

Lower == {"a","b","c","d","e","f","g","h","i","j","k","l","m",
          "n","o","p","q","r","s","t","u","v","w","x","y","z"}

Upper == {"A","B","C","D","E","F","G","H","I","J","K","L","M",
          "N","O","P","Q","R","S","T","U","V","W","X","Y","Z"}

Digit == {"0","1","2","3","4","5","6","7","8","9"}

\* \w of Python's re
WordCh == Lower \cup Upper \cup Digit \cup {"_"}

\* \s of Python's re
Space == {" ", "\t", "\n", "\r"}

Range(xs) == {xs[k] : k \in DOMAIN xs}

Min(S) == CHOOSE x \in S : \A y \in S : x <= y

Max(S) == CHOOSE x \in S : \A y \in S : x >= y

\* s[a..b-1] = w
At(s, a, w) == a + Len(w) - 1 <= Len(s) /\ \A k \in 1..Len(w) : s[a + k - 1] = w[k]

\* str.startswith
StartsWith(s, w) == At(s, 1, w)

\* str.endswith
EndsWith(s, w) == Len(w) <= Len(s) /\ At(s, Len(s) - Len(w) + 1, w)

\* w in s
Contains(s, w) == \E a \in 1..(Len(s) + 1) : At(s, a, w)

\* str.count(c) for a one-character c
Count(s, c) == Cardinality({p \in 1..Len(s) : s[p] = c})

\* str.strip(): the text between the first and the last non-space character
StrStrip(s) ==
    LET ink == {p \in 1..Len(s) : s[p] \notin Space}
    IN  IF ink = {} THEN <<>> ELSE SubSeq(s, Min(ink), Max(ink))

\* str.replace(a, b) for one-character a and b
ReplaceCh(s, a, b) == [p \in 1..Len(s) |-> IF s[p] = a THEN b ELSE s[p]]

\* os.path.basename: what follows the last "/"
Basename(s) ==
    LET sl == {p \in 1..Len(s) : s[p] = "/"}
    IN  IF sl = {} THEN s ELSE SubSeq(s, Max(sl) + 1, Len(s))

\* ------------------------------------------------------- regular expressions

In(S) == [t |-> "in", cs |-> S]

NotIn(S) == [t |-> "notin", cs |-> S]

Lit(w) == [t |-> "lit", w |-> w]

Cat(rs) == [t |-> "cat", rs |-> rs]

Alt(rs) == [t |-> "alt", rs |-> rs]

\* c* and c+ for a character class c
Star(c) == [t |-> "star", r |-> c]

Plus(c) == [t |-> "plus", r |-> c]

Opt(r) == [t |-> "opt", r |-> r]

\* ( ... ): group 1
Grp(r) == [t |-> "grp", r |-> r]

\* ^ (no MULTILINE flag in the source)
Bol == [t |-> "bol"]

\* \b
WordB == [t |-> "wb"]

\* ^ under re.MULTILINE: the start of the text or of a line
BolM == [t |-> "bolm"]

\* (?!w): the text does not go on with w
NotAhead(w) == [t |-> "nla", w |-> w]

IsClass(c, ch) == IF c.t = "in" THEN ch \in c.cs ELSE ch \notin c.cs

IsWordAt(s, p) == p >= 1 /\ p <= Len(s) /\ s[p] \in WordCh

\* The positions a run of class c can end at when it starts at a: a itself
\* and every position up to the first character outside c.
RunEnds(c, s, a) ==
    LET bad == {p \in a..Len(s) : ~IsClass(c, s[p])}
        stop == IF bad = {} THEN Len(s) + 1 ELSE Min(bad)
    IN  a..stop

\* A match in progress: a the start, p the next position, g group 1's extent.
RECURSIVE Ends(_, _, _)
RECURSIVE EndsCat(_, _, _, _)
Ends(re, s, I) ==
    CASE re.t \in {"in", "notin"} ->
           {[x EXCEPT !.p = @ + 1] : x \in {y \in I : y.p <= Len(s) /\ IsClass(re, s[y.p])}}
      [] re.t = "lit" ->
           {[x EXCEPT !.p = @ + Len(re.w)] : x \in {y \in I : At(s, y.p, re.w)}}
      [] re.t = "cat" -> EndsCat(re.rs, 1, s, I)
      [] re.t = "alt" -> UNION {Ends(re.rs[k], s, I) : k \in DOMAIN re.rs}
      [] re.t = "star" ->
           UNION {{[x EXCEPT !.p = j] : j \in RunEnds(re.r, s, x.p)} : x \in I}
      [] re.t = "plus" ->
           UNION {{[x EXCEPT !.p = j] : j \in RunEnds(re.r, s, x.p) \ {x.p}} : x \in I}
      [] re.t = "opt" -> I \cup Ends(re.r, s, I)
      [] re.t = "grp" ->
           UNION {{[y EXCEPT !.g = <<x.p, y.p>>] : y \in Ends(re.r, s, {x})} : x \in I}
      [] re.t = "bol" -> {x \in I : x.p = 1}
      [] re.t = "wb" -> {x \in I : IsWordAt(s, x.p - 1) # IsWordAt(s, x.p)}
      [] re.t = "bolm" -> {x \in I : x.p = 1 \/ s[x.p - 1] = "\n"}
      [] re.t = "nla" -> {x \in I : ~At(s, x.p, re.w)}

EndsCat(rs, k, s, I) ==
    IF k > Len(rs) \/ I = {} THEN I ELSE EndsCat(rs, k + 1, s, Ends(rs[k], s, I))

StartAt(a) == [a |-> a, p |-> a, g |-> <<0, 0>>]

\* Python resolves a choice between several matches from one start by
\* backtracking order; for the greedy patterns of this repository that is the
\* longest one, and group 1 is the same in all of them.
Longest(M) == CHOOSE m \in M : \A n \in M : n.p <= m.p

Group1(s, m) == SubSeq(s, m.g[1], m.g[2] - 1)

\* re.match(re, s): the match at the start of s, or NoMatch
NoMatch == [a |-> 0, p |-> 0, g |-> <<0, 0>>]

ReMatch(re, s) ==
    LET M == Ends(re, s, {StartAt(1)})
    IN  IF M = {} THEN NoMatch ELSE Longest(M)

\* re.search(re, s) is not None
ReSearch(re, s) == Ends(re, s, {StartAt(a) : a \in 1..(Len(s) + 1)}) # {}

\* re.finditer(re, s): the leftmost match, then the leftmost one that starts
\* at or after its end, and so on.
RECURSIVE IterFrom(_, _)
IterFrom(M, from) ==
    LET rest == {m \in M : m.a >= from}
    IN  IF rest = {} THEN <<>>
        ELSE LET a == Min({m.a : m \in rest})
                 m == Longest({n \in rest : n.a = a})
             IN  <<m>> \o IterFrom(M, IF m.p > m.a THEN m.p ELSE m.a + 1)

ReFindIter(re, s) ==
    IterFrom(Ends(re, s, {StartAt(a) : a \in 1..(Len(s) + 1)}), 1)

\* ------------------------------------------------------------ text table

\* Every text of the model by its spelling: the words of the patterns, the
\* lines of the analysed files and their paths.
Chars ==
       ("@override" :> <<"@","o","v","e","r","r","i","d","e">>)
    @@ ("static" :> <<"s","t","a","t","i","c">>)
    @@ ("final" :> <<"f","i","n","a","l">>)
    @@ ("const" :> <<"c","o","n","s","t">>)
    @@ ("Future<" :> <<"F","u","t","u","r","e","<">>)
    @@ ("Stream<" :> <<"S","t","r","e","a","m","<">>)
    @@ (">" :> <<">">>)
    @@ ("Widget" :> <<"W","i","d","g","e","t">>)
    @@ ("void" :> <<"v","o","i","d">>)
    @@ ("bool" :> <<"b","o","o","l">>)
    @@ ("int" :> <<"i","n","t">>)
    @@ ("double" :> <<"d","o","u","b","l","e">>)
    @@ ("String" :> <<"S","t","r","i","n","g">>)
    @@ ("List" :> <<"L","i","s","t">>)
    @@ ("Map" :> <<"M","a","p">>)
    @@ ("Set" :> <<"S","e","t">>)
    @@ ("(" :> <<"(">>)
    @@ (")" :> <<")">>)
    @@ ("{" :> <<"{">>)
    @@ ("}" :> <<"}">>)
    @@ ("async" :> <<"a","s","y","n","c">>)
    @@ ("sync*" :> <<"s","y","n","c","*">>)
    @@ ("//" :> <<"/","/">>)
    @@ ("/*" :> <<"/","*">>)
    @@ ("void f() {" :> <<"v","o","i","d"," ","f","(",")"," ","{">>)
    @@ ("x;" :> <<"x",";">>)
    @@ ("if (a) {" :> <<"i","f"," ","(","a",")"," ","{">>)
    @@ ("void f() { if (a) {" :> <<"v","o","i","d"," ","f","(",")"," ","{"," ","i","f"," ","(","a",")"," ","{">>)
    @@ ("} else {" :> <<"}"," ","e","l","s","e"," ","{">>)
    @@ ("s = \"}\";" :> <<"s"," ","="," ","\"","}","\"",";">>)
    @@ ("s = \"\";" :> <<"s"," ","="," ","\"","\"",";">>)
    @@ ("// {" :> <<"/","/"," ","{">>)
    @@ ("// " :> <<"/","/"," ">>)
    @@ ("" :> <<>>)
    @@ ("lib/" :> <<"l","i","b","/">>)
    @@ ("test/" :> <<"t","e","s","t","/">>)
    @@ ("lib/l10n/" :> <<"l","i","b","/","l","1","0","n","/">>)
    @@ ("lib/generated/" :> <<"l","i","b","/","g","e","n","e","r","a","t","e","d","/">>)
    @@ ("lib/.dart_tool/" :> <<"l","i","b","/",".","d","a","r","t","_","t","o","o","l","/">>)
    @@ ("test/.dart_tool/" :> <<"t","e","s","t","/",".","d","a","r","t","_","t","o","o","l","/">>)
    @@ ("test/domain/services/persistence/unified_persistence_service_test.dart" :> <<"t","e","s","t","/","d","o","m","a","i","n","/","s","e","r","v","i","c","e","s","/","p","e","r","s","i","s","t","e","n","c","e","/","u","n","i","f","i","e","d","_","p","e","r","s","i","s","t","e","n","c","e","_","s","e","r","v","i","c","e","_","t","e","s","t",".","d","a","r","t">>)
    @@ (".g.dart" :> <<".","g",".","d","a","r","t">>)
    @@ (".freezed.dart" :> <<".","f","r","e","e","z","e","d",".","d","a","r","t">>)
    @@ (".mocks.dart" :> <<".","m","o","c","k","s",".","d","a","r","t">>)
    @@ ("_config.dart" :> <<"_","c","o","n","f","i","g",".","d","a","r","t">>)
    @@ ("/regression/" :> <<"/","r","e","g","r","e","s","s","i","o","n","/">>)
    @@ (".dart" :> <<".","d","a","r","t">>)
    @@ ("lib/a.dart" :> <<"l","i","b","/","a",".","d","a","r","t">>)
    @@ ("lib/b.dart" :> <<"l","i","b","/","b",".","d","a","r","t">>)
    @@ ("import" :> <<"i","m","p","o","r","t">>)
    @@ ("export" :> <<"e","x","p","o","r","t">>)
    @@ ("class" :> <<"c","l","a","s","s">>)
    @@ ("extends" :> <<"e","x","t","e","n","d","s">>)
    @@ ("implements" :> <<"i","m","p","l","e","m","e","n","t","s">>)
    @@ ("with" :> <<"w","i","t","h">>)
    @@ ("Future" :> <<"F","u","t","u","r","e">>)
    @@ ("dynamic" :> <<"d","y","n","a","m","i","c">>)
    @@ ("package:flutter" :> <<"p","a","c","k","a","g","e",":","f","l","u","t","t","e","r">>)
    @@ ("dart:" :> <<"d","a","r","t",":">>)
    @@ ("main.dart" :> <<"m","a","i","n",".","d","a","r","t">>)
    @@ ("export.dart" :> <<"e","x","p","o","r","t",".","d","a","r","t">>)
    @@ ("class A {}" :> <<"c","l","a","s","s"," ","A"," ","{","}">>)
    @@ ("A x;" :> <<"A"," ","x",";">>)
    @@ ("class AB {}" :> <<"c","l","a","s","s"," ","A","B"," ","{","}">>)
    @@ ("import 'b.dart';" :> <<"i","m","p","o","r","t"," ","'","b",".","d","a","r","t","'",";">>)
    @@ ("import 'data.dart';" :> <<"i","m","p","o","r","t"," ","'","d","a","t","a",".","d","a","r","t","'",";">>)
    @@ ("import 'package:flutter/a.dart';" :> <<"i","m","p","o","r","t"," ","'","p","a","c","k","a","g","e",":","f","l","u","t","t","e","r","/","a",".","d","a","r","t","'",";">>)
    @@ ("export 'b.dart';" :> <<"e","x","p","o","r","t"," ","'","b",".","d","a","r","t","'",";">>)
    @@ ("void loadData(String id, bool force) {}" :> <<"v","o","i","d"," ","l","o","a","d","D","a","t","a","(","S","t","r","i","n","g"," ","i","d",","," ","b","o","o","l"," ","f","o","r","c","e",")"," ","{","}">>)
    @@ ("void  loadData(String id," :> <<"v","o","i","d"," "," ","l","o","a","d","D","a","t","a","(","S","t","r","i","n","g"," ","i","d",",">>)
    @@ ("    bool force) {}" :> <<" "," "," "," ","b","o","o","l"," ","f","o","r","c","e",")"," ","{","}">>)
    @@ ("Future<void> loadData(String id, bool force) {}" :> <<"F","u","t","u","r","e","<","v","o","i","d",">"," ","l","o","a","d","D","a","t","a","(","S","t","r","i","n","g"," ","i","d",","," ","b","o","o","l"," ","f","o","r","c","e",")"," ","{","}">>)
    @@ ("void loadDat(String id, int n) {}" :> <<"v","o","i","d"," ","l","o","a","d","D","a","t","(","S","t","r","i","n","g"," ","i","d",","," ","i","n","t"," ","n",")"," ","{","}">>)
    @@ ("void loadData(String id, int n) {}" :> <<"v","o","i","d"," ","l","o","a","d","D","a","t","a","(","S","t","r","i","n","g"," ","i","d",","," ","i","n","t"," ","n",")"," ","{","}">>)
    @@ ("lib/main.dart" :> <<"l","i","b","/","m","a","i","n",".","d","a","r","t">>)
    @@ ("lib/a.g.dart" :> <<"l","i","b","/","a",".","g",".","d","a","r","t">>)
    @@ ("test/a_test.dart" :> <<"t","e","s","t","/","a","_","t","e","s","t",".","d","a","r","t">>)
    @@ ("test/b_test.dart" :> <<"t","e","s","t","/","b","_","t","e","s","t",".","d","a","r","t">>)
    @@ ("lib/c.dart" :> <<"l","i","b","/","c",".","d","a","r","t">>)
    @@ ("/* x" :> <<"/","*"," ","x">>)
    @@ ("s = \"x" :> <<"s"," ","="," ","\"","x">>)
    @@ ("switch" :> <<"s","w","i","t","c","h">>)
    @@ ("case" :> <<"c","a","s","e">>)
    @@ ("Repository" :> <<"R","e","p","o","s","i","t","o","r","y">>)
    @@ ("Service" :> <<"S","e","r","v","i","c","e">>)
    @@ ("Controller" :> <<"C","o","n","t","r","o","l","l","e","r">>)
    @@ ("Manager" :> <<"M","a","n","a","g","e","r">>)
    @@ ("Handler" :> <<"H","a","n","d","l","e","r">>)
    @@ ("Provider" :> <<"P","r","o","v","i","d","e","r">>)
    @@ ("Builder" :> <<"B","u","i","l","d","e","r">>)
    @@ ("State" :> <<"S","t","a","t","e">>)
    @@ ("class A {" :> <<"c","l","a","s","s"," ","A"," ","{">>)
    @@ ("class UserService {" :> <<"c","l","a","s","s"," ","U","s","e","r","S","e","r","v","i","c","e"," ","{">>)
    @@ ("class UserServiceManager {" :> <<"c","l","a","s","s"," ","U","s","e","r","S","e","r","v","i","c","e","M","a","n","a","g","e","r"," ","{">>)
    @@ ("void f() {}" :> <<"v","o","i","d"," ","f","(",")"," ","{","}">>)
    @@ ("import 'a.dart';" :> <<"i","m","p","o","r","t"," ","'","a",".","d","a","r","t","'",";">>)
    @@ ("x = Foo();" :> <<"x"," ","="," ","F","o","o","(",")",";">>)
    @@ ("x = List();" :> <<"x"," ","="," ","L","i","s","t","(",")",";">>)
    @@ ("switch (x) {" :> <<"s","w","i","t","c","h"," ","(","x",")"," ","{">>)
    @@ ("case 1:" :> <<"c","a","s","e"," ","1",":">>)
    @@ ("void loadData01(String id, bool force) {}" :> <<"v","o","i","d"," ","l","o","a","d","D","a","t","a","0","1","(","S","t","r","i","n","g"," ","i","d",","," ","b","o","o","l"," ","f","o","r","c","e",")"," ","{","}">>)
    @@ ("void loadData02(String id, bool force) {}" :> <<"v","o","i","d"," ","l","o","a","d","D","a","t","a","0","2","(","S","t","r","i","n","g"," ","i","d",","," ","b","o","o","l"," ","f","o","r","c","e",")"," ","{","}">>)
    @@ ("void loadData03(String id, bool force) {}" :> <<"v","o","i","d"," ","l","o","a","d","D","a","t","a","0","3","(","S","t","r","i","n","g"," ","i","d",","," ","b","o","o","l"," ","f","o","r","c","e",")"," ","{","}">>)
    @@ ("void loadData04(String id, bool force) {}" :> <<"v","o","i","d"," ","l","o","a","d","D","a","t","a","0","4","(","S","t","r","i","n","g"," ","i","d",","," ","b","o","o","l"," ","f","o","r","c","e",")"," ","{","}">>)
    @@ ("void loadData05(String id, bool force) {}" :> <<"v","o","i","d"," ","l","o","a","d","D","a","t","a","0","5","(","S","t","r","i","n","g"," ","i","d",","," ","b","o","o","l"," ","f","o","r","c","e",")"," ","{","}">>)
    @@ ("void loadData06(String id, bool force) {}" :> <<"v","o","i","d"," ","l","o","a","d","D","a","t","a","0","6","(","S","t","r","i","n","g"," ","i","d",","," ","b","o","o","l"," ","f","o","r","c","e",")"," ","{","}">>)
    @@ ("void loadData07(String id, bool force) {}" :> <<"v","o","i","d"," ","l","o","a","d","D","a","t","a","0","7","(","S","t","r","i","n","g"," ","i","d",","," ","b","o","o","l"," ","f","o","r","c","e",")"," ","{","}">>)
    @@ ("void loadData08(String id, bool force) {}" :> <<"v","o","i","d"," ","l","o","a","d","D","a","t","a","0","8","(","S","t","r","i","n","g"," ","i","d",","," ","b","o","o","l"," ","f","o","r","c","e",")"," ","{","}">>)
    @@ ("void loadData09(String id, bool force) {}" :> <<"v","o","i","d"," ","l","o","a","d","D","a","t","a","0","9","(","S","t","r","i","n","g"," ","i","d",","," ","b","o","o","l"," ","f","o","r","c","e",")"," ","{","}">>)
    @@ ("void loadData10(String id, bool force) {}" :> <<"v","o","i","d"," ","l","o","a","d","D","a","t","a","1","0","(","S","t","r","i","n","g"," ","i","d",","," ","b","o","o","l"," ","f","o","r","c","e",")"," ","{","}">>)
    @@ ("void loadData11(String id, bool force) {}" :> <<"v","o","i","d"," ","l","o","a","d","D","a","t","a","1","1","(","S","t","r","i","n","g"," ","i","d",","," ","b","o","o","l"," ","f","o","r","c","e",")"," ","{","}">>)
    @@ ("void loadData12(String id, bool force) {}" :> <<"v","o","i","d"," ","l","o","a","d","D","a","t","a","1","2","(","S","t","r","i","n","g"," ","i","d",","," ","b","o","o","l"," ","f","o","r","c","e",")"," ","{","}">>)
    @@ ("void loadData13(String id, bool force) {}" :> <<"v","o","i","d"," ","l","o","a","d","D","a","t","a","1","3","(","S","t","r","i","n","g"," ","i","d",","," ","b","o","o","l"," ","f","o","r","c","e",")"," ","{","}">>)
    @@ ("void loadData14(String id, bool force) {}" :> <<"v","o","i","d"," ","l","o","a","d","D","a","t","a","1","4","(","S","t","r","i","n","g"," ","i","d",","," ","b","o","o","l"," ","f","o","r","c","e",")"," ","{","}">>)
    @@ ("void loadData15(String id, bool force) {}" :> <<"v","o","i","d"," ","l","o","a","d","D","a","t","a","1","5","(","S","t","r","i","n","g"," ","i","d",","," ","b","o","o","l"," ","f","o","r","c","e",")"," ","{","}">>)
    @@ ("void loadData16(String id, bool force) {}" :> <<"v","o","i","d"," ","l","o","a","d","D","a","t","a","1","6","(","S","t","r","i","n","g"," ","i","d",","," ","b","o","o","l"," ","f","o","r","c","e",")"," ","{","}">>)
    @@ ("void loadData17(String id, bool force) {}" :> <<"v","o","i","d"," ","l","o","a","d","D","a","t","a","1","7","(","S","t","r","i","n","g"," ","i","d",","," ","b","o","o","l"," ","f","o","r","c","e",")"," ","{","}">>)
    @@ ("void loadData18(String id, bool force) {}" :> <<"v","o","i","d"," ","l","o","a","d","D","a","t","a","1","8","(","S","t","r","i","n","g"," ","i","d",","," ","b","o","o","l"," ","f","o","r","c","e",")"," ","{","}">>)
    @@ ("void loadData19(String id, bool force) {}" :> <<"v","o","i","d"," ","l","o","a","d","D","a","t","a","1","9","(","S","t","r","i","n","g"," ","i","d",","," ","b","o","o","l"," ","f","o","r","c","e",")"," ","{","}">>)
    @@ ("void loadData20(String id, bool force) {}" :> <<"v","o","i","d"," ","l","o","a","d","D","a","t","a","2","0","(","S","t","r","i","n","g"," ","i","d",","," ","b","o","o","l"," ","f","o","r","c","e",")"," ","{","}">>)
    @@ ("void loadData21(String id, bool force) {}" :> <<"v","o","i","d"," ","l","o","a","d","D","a","t","a","2","1","(","S","t","r","i","n","g"," ","i","d",","," ","b","o","o","l"," ","f","o","r","c","e",")"," ","{","}">>)
    @@ ("void loadData22(String id, bool force) {}" :> <<"v","o","i","d"," ","l","o","a","d","D","a","t","a","2","2","(","S","t","r","i","n","g"," ","i","d",","," ","b","o","o","l"," ","f","o","r","c","e",")"," ","{","}">>)
    @@ ("void loadData23(String id, bool force) {}" :> <<"v","o","i","d"," ","l","o","a","d","D","a","t","a","2","3","(","S","t","r","i","n","g"," ","i","d",","," ","b","o","o","l"," ","f","o","r","c","e",")"," ","{","}">>)
    @@ ("void loadData24(String id, bool force) {}" :> <<"v","o","i","d"," ","l","o","a","d","D","a","t","a","2","4","(","S","t","r","i","n","g"," ","i","d",","," ","b","o","o","l"," ","f","o","r","c","e",")"," ","{","}">>)
    @@ ("void loadData25(String id, bool force) {}" :> <<"v","o","i","d"," ","l","o","a","d","D","a","t","a","2","5","(","S","t","r","i","n","g"," ","i","d",","," ","b","o","o","l"," ","f","o","r","c","e",")"," ","{","}">>)
    @@ ("void loadData26(String id, bool force) {}" :> <<"v","o","i","d"," ","l","o","a","d","D","a","t","a","2","6","(","S","t","r","i","n","g"," ","i","d",","," ","b","o","o","l"," ","f","o","r","c","e",")"," ","{","}">>)
    @@ ("void loadData27(String id, bool force) {}" :> <<"v","o","i","d"," ","l","o","a","d","D","a","t","a","2","7","(","S","t","r","i","n","g"," ","i","d",","," ","b","o","o","l"," ","f","o","r","c","e",")"," ","{","}">>)
    @@ ("void loadData28(String id, bool force) {}" :> <<"v","o","i","d"," ","l","o","a","d","D","a","t","a","2","8","(","S","t","r","i","n","g"," ","i","d",","," ","b","o","o","l"," ","f","o","r","c","e",")"," ","{","}">>)
    @@ ("void loadData29(String id, bool force) {}" :> <<"v","o","i","d"," ","l","o","a","d","D","a","t","a","2","9","(","S","t","r","i","n","g"," ","i","d",","," ","b","o","o","l"," ","f","o","r","c","e",")"," ","{","}">>)
    @@ ("void loadData30(String id, bool force) {}" :> <<"v","o","i","d"," ","l","o","a","d","D","a","t","a","3","0","(","S","t","r","i","n","g"," ","i","d",","," ","b","o","o","l"," ","f","o","r","c","e",")"," ","{","}">>)
    @@ ("void loadData31(String id, bool force) {}" :> <<"v","o","i","d"," ","l","o","a","d","D","a","t","a","3","1","(","S","t","r","i","n","g"," ","i","d",","," ","b","o","o","l"," ","f","o","r","c","e",")"," ","{","}">>)
    @@ ("lib/f01.dart" :> <<"l","i","b","/","f","0","1",".","d","a","r","t">>)
    @@ ("lib/f02.dart" :> <<"l","i","b","/","f","0","2",".","d","a","r","t">>)
    @@ ("lib/f03.dart" :> <<"l","i","b","/","f","0","3",".","d","a","r","t">>)
    @@ ("lib/f04.dart" :> <<"l","i","b","/","f","0","4",".","d","a","r","t">>)
    @@ ("lib/f05.dart" :> <<"l","i","b","/","f","0","5",".","d","a","r","t">>)
    @@ ("lib/f06.dart" :> <<"l","i","b","/","f","0","6",".","d","a","r","t">>)
    @@ ("lib/f07.dart" :> <<"l","i","b","/","f","0","7",".","d","a","r","t">>)
    @@ ("lib/f08.dart" :> <<"l","i","b","/","f","0","8",".","d","a","r","t">>)
    @@ ("lib/f09.dart" :> <<"l","i","b","/","f","0","9",".","d","a","r","t">>)
    @@ ("lib/f10.dart" :> <<"l","i","b","/","f","1","0",".","d","a","r","t">>)
    @@ ("lib/f11.dart" :> <<"l","i","b","/","f","1","1",".","d","a","r","t">>)
    @@ ("lib/f12.dart" :> <<"l","i","b","/","f","1","2",".","d","a","r","t">>)
    @@ ("lib/f13.dart" :> <<"l","i","b","/","f","1","3",".","d","a","r","t">>)
    @@ ("lib/f14.dart" :> <<"l","i","b","/","f","1","4",".","d","a","r","t">>)
    @@ ("lib/f15.dart" :> <<"l","i","b","/","f","1","5",".","d","a","r","t">>)
    @@ ("lib/f16.dart" :> <<"l","i","b","/","f","1","6",".","d","a","r","t">>)
    @@ ("lib/f17.dart" :> <<"l","i","b","/","f","1","7",".","d","a","r","t">>)
    @@ ("lib/f18.dart" :> <<"l","i","b","/","f","1","8",".","d","a","r","t">>)
    @@ ("lib/f19.dart" :> <<"l","i","b","/","f","1","9",".","d","a","r","t">>)
    @@ ("lib/f20.dart" :> <<"l","i","b","/","f","2","0",".","d","a","r","t">>)
    @@ ("lib/f21.dart" :> <<"l","i","b","/","f","2","1",".","d","a","r","t">>)
    @@ ("lib/f22.dart" :> <<"l","i","b","/","f","2","2",".","d","a","r","t">>)

\* A file's text is a tuple of runs <<line, n>>: n consecutive copies of line.
RECURSIVE NumLines(_)
NumLines(text) == IF text = <<>> THEN 0 ELSE text[1][2] + NumLines(Tail(text))

\* The k-th line (1-indexed) of a text
RECURSIVE LineAt(_, _)
LineAt(text, k) ==
    IF k <= text[1][2] THEN text[1][1] ELSE LineAt(Tail(text), k - text[1][2])

\* -------------------------------------------------- analyze_methods.py

ws == In(Space)

w == In(WordCh)

\* method_pattern of analyze_method_sizes
ms_return_type ==
    Alt(<<Cat(<<Lit(Chars["Future<"]), Plus(NotIn({">"})), Lit(Chars[">"])>>),
          Cat(<<Lit(Chars["Stream<"]), Plus(NotIn({">"})), Lit(Chars[">"])>>),
          Lit(Chars["Widget"]), Lit(Chars["void"]), Lit(Chars["bool"]),
          Lit(Chars["int"]), Lit(Chars["double"]), Lit(Chars["String"]),
          Lit(Chars["List"]), Lit(Chars["Map"]), Lit(Chars["Set"]),
          Cat(<<In(Upper), Star(w)>>)>>)

ms_method_pattern ==
    Cat(<<Bol, Star(ws),
          Opt(Cat(<<Lit(Chars["@override"]), Plus(ws)>>)),
          Opt(Alt(<<Cat(<<Lit(Chars["static"]), Plus(ws)>>),
                    Cat(<<Lit(Chars["final"]), Plus(ws)>>),
                    Cat(<<Lit(Chars["const"]), Plus(ws)>>)>>)),
          ms_return_type, Plus(ws),
          Grp(Plus(w)), Star(ws),
          Lit(Chars["("]), Star(NotIn({")"})), Lit(Chars[")"]),
          Star(ws), Opt(Lit(Chars["async"])), Star(ws), Lit(Chars["{"])>>)

\* method_pattern.match(line), for every line of the text table
ms_match == [l \in DOMAIN Chars |-> ReMatch(ms_method_pattern, Chars[l])]

\* for char in lines[j]: the brace count after the line, 0 once it is reached
RECURSIVE ms_scan_chars(_, _, _)
ms_scan_chars(cs, p, brace_count) ==
    IF p > Len(cs) THEN brace_count
    ELSE IF cs[p] = "{" THEN ms_scan_chars(cs, p + 1, brace_count + 1)
    ELSE IF cs[p] = "}"
         THEN IF brace_count - 1 = 0 THEN 0
              ELSE ms_scan_chars(cs, p + 1, brace_count - 1)
    ELSE ms_scan_chars(cs, p + 1, brace_count)

\* f.readlines(): the lines of the file; the text of a file is what
\* content.split('\n') gives, whose last piece is empty when the file ends
\* with a newline, and readlines() has no line for that piece.
ReadLines(text) ==
    LET n == Len(text)
    IN  IF text[n][1] # "" THEN text
        ELSE IF text[n][2] = 1 THEN SubSeq(text, 1, n - 1)
        ELSE [text EXCEPT ![n] = <<"", text[n][2] - 1>>]

\* sorted(xs, key=..., reverse=True), keys[k] the key of xs[k]: descending,
\* and stable (equal keys keep the order they have in xs)
SortDesc(xs, keys) ==
    LET rank(k) == Cardinality({m \in 1..Len(xs) : keys[m] > keys[k]})
                   + Cardinality({m \in 1..(k - 1) : keys[m] = keys[k]}) + 1
    IN  [r \in 1..Len(xs) |-> xs[CHOOSE k \in 1..Len(xs) : rank(k) = r]]

\* sorted(xs, key=...), keys[k] the key of xs[k]: ascending and stable
SortAsc(xs, keys) ==
    LET rank(k) == Cardinality({m \in 1..Len(xs) : keys[m] < keys[k]})
                   + Cardinality({m \in 1..(k - 1) : keys[m] = keys[k]}) + 1
    IN  [r \in 1..Len(xs) |-> xs[CHOOSE k \in 1..Len(xs) : rank(k) = r]]

\* xs[:n]
Take(xs, n) == SubSeq(xs, 1, IF Len(xs) < n THEN Len(xs) ELSE n)

VARIABLES
    tree,   \* the .dart files of the project, in the order in which
            \* analyze_methods.py and analyze_project.py get them from rglob
    prog,   \* the scripts still to run, the running one first
    ms,     \* analyze_methods.py: the locals of main and analyze_method_sizes
    pa,     \* the ProjectAnalyzer object: stats and violations
    pm,     \* analyze_project.py: the locals of analyze_project/analyze_methods
    dc,     \* the DeadCodeAnalyzer object and the locals of generate_report
    reports, \* what the finished runs of analyze_dead_code.py reported
    plan,   \* generate_final_report.py: sorted_files of generate_refactoring_plan
    unreadable, \* the paths at which open() raises
    so,     \* analyze_solid.py: the locals of SOLIDAnalyzer.generate_report
    norm    \* a header text and what normalizing it once and twice gives

vars == <<tree, prog, ms, pa, pm, dc, reports, plan, unreadable, so, norm>>

Paths == {tree[k].path : k \in DOMAIN tree}

\* if line_count > 50 (analyze_method_sizes)
MethodLimit == 50

IsLib(f) == StartsWith(Chars[f.path], Chars["lib/"])

\* find_dart_files("lib")
dart_files == SelectSeq(tree, IsLib)

ms_idle ==
    [pc |-> "main", f |-> 1, i |-> 0, j |-> 0, brace_count |-> 0,
     method_name |-> <<>>, start_line |-> 0, methods |-> <<>>,
     all_methods |-> <<>>, spans |-> <<>>, errors |-> <<>>]

ms_lines == ReadLines(dart_files[ms.f].text)

\* if line_count > 50
ms_oversized_ge(line_count) == line_count >= MethodLimit

ms_oversized(line_count) == line_count > MethodLimit

\* i = j: the search goes on after the line that closed the method
ms_resume_next(i, j) == i + 1

\* A search that goes on at the header it has just left
ms_resume_stay(i, j) == i

ms_resume(i, j) == j

\* main: for file_path in dart_files, and the entry of analyze_method_sizes,
\* which prints the error and returns no method if the file cannot be read
MS_Main ==
    /\ prog # <<>> /\ Head(prog) = "analyze_methods"
    /\ ms.pc = "main" /\ ms.f <= Len(dart_files)
    /\ IF dart_files[ms.f].path \in unreadable
       THEN ms' = [ms EXCEPT !.f = @ + 1, !.errors = Append(@, dart_files[ms.f].path)]
       ELSE ms' = [ms EXCEPT !.pc = "outer", !.i = 0, !.methods = <<>>]
    /\ UNCHANGED <<tree, prog, pa, pm, dc, reports, plan, unreadable, so, norm>>

\* One turn of while i < len(lines); at its end the return to main, which
\* extends all_methods.
MS_Outer ==
    /\ ms.pc = "outer"
    /\ IF ms.i < NumLines(ms_lines)
       THEN LET line == LineAt(ms_lines, ms.i + 1)
                match == ms_match[line]
            IN  IF match # NoMatch
                THEN ms' = [ms EXCEPT !.pc = "inner",
                                      !.method_name = Group1(Chars[line], match),
                                      !.start_line = ms.i + 1,
                                      !.brace_count = 1,
                                      !.j = ms.i + 1]
                ELSE ms' = [ms EXCEPT !.i = @ + 1]
       ELSE ms' = [ms EXCEPT !.pc = "main", !.f = @ + 1,
                             !.all_methods = @ \o ms.methods]
    /\ UNCHANGED <<tree, prog, pa, pm, dc, reports, plan, unreadable, so, norm>>

\* One turn of while j < len(lines) and brace_count > 0; at its end the span
\* is closed and the search goes on at i = j.
MS_Inner ==
    /\ ms.pc = "inner"
    /\ IF ms.j < NumLines(ms_lines) /\ ms.brace_count > 0
       THEN ms' = [ms EXCEPT
                     !.brace_count = ms_scan_chars(Chars[LineAt(ms_lines, ms.j + 1)], 1, @),
                     !.j = @ + 1]
       ELSE LET end_line == ms.j
                line_count == end_line - ms.start_line + 1
                info == [file_path |-> dart_files[ms.f].path,
                         method_name |-> ms.method_name,
                         start_line |-> ms.start_line,
                         end_line |-> end_line,
                         line_count |-> line_count]
            IN  ms' = [ms EXCEPT
                         !.pc = "outer",
                         !.methods = IF ms_oversized(line_count) THEN Append(@, info) ELSE @,
                         !.spans = Append(@, info),
                         !.i = ms_resume(ms.i, ms.j)]
    /\ UNCHANGED <<tree, prog, pa, pm, dc, reports, plan, unreadable, so, norm>>

\* key=lambda m: m.line_count
ms_line_count(xs) == [k \in 1..Len(xs) |-> xs[k].line_count]

\* main: all_methods.sort(key=line_count, reverse=True), then the printing
MS_Sort ==
    /\ prog # <<>> /\ Head(prog) = "analyze_methods"
    /\ ms.pc = "main" /\ ms.f > Len(dart_files)
    /\ ms' = [ms EXCEPT !.pc = "done", !.all_methods = SortDesc(@, ms_line_count(@))]
    /\ prog' = Tail(prog)
    /\ UNCHANGED <<tree, pa, pm, dc, reports, plan, unreadable, so, norm>>

\* ---------------------------------------------------- analyze_project.py

\* if line_count > 500 (analyze_file)
FileLimit == 500

\* if method_length > 50 (analyze_methods)
PaMethodLimit == 50

\* sorted_files[:20] (generate_report)
TopFiles == 20

\* sorted_files[:20] (generate_refactoring_plan)
TopPlan == 20

\* method_pattern of ProjectAnalyzer.analyze_methods
pm_method_pattern ==
    Cat(<<Bol, Star(ws),
          Plus(In(WordCh \cup {"<", ">", "?", ","} \cup Space)),
          Plus(ws), Grp(Plus(w)), Star(ws),
          Lit(Chars["("]), Star(NotIn({")"})), Lit(Chars[")"]),
          Star(ws), Opt(Alt(<<Lit(Chars["async"]), Lit(Chars["sync*"])>>)),
          Star(ws), Lit(Chars["{"])>>)

\* re.match(method_pattern, line), for every line of the text table
pm_match == [l \in DOMAIN Chars |-> ReMatch(pm_method_pattern, Chars[l])]

\* not stripped or stripped.startswith('//') or stripped.startswith('/*')
pm_skipped ==
    [l \in DOMAIN Chars |->
        LET stripped == StrStrip(Chars[l])
        IN  \/ stripped = <<>>
            \/ StartsWith(stripped, Chars["//"])
            \/ StartsWith(stripped, Chars["/*"])]

\* line.count('{') - line.count('}')
pm_delta == [l \in DOMAIN Chars |-> Count(Chars[l], "{") - Count(Chars[l], "}")]

generated_patterns ==
    <<"lib/l10n/", "lib/generated/", "lib/.dart_tool/", "test/.dart_tool/",
      "test/domain/services/persistence/unified_persistence_service_test.dart">>

\* An exclusion by directory only, without the suffixes of generated files
is_excluded_by_directory(path) ==
    LET relative == Chars[path]
        filename == Basename(relative)
    IN  \/ \E k \in DOMAIN generated_patterns :
              StartsWith(relative, Chars[generated_patterns[k]])
        \/ Contains(relative, Chars["/regression/"]) /\ EndsWith(filename, Chars[".dart"])

\* ProjectAnalyzer.is_excluded, of the path relative to the project root
is_excluded(path) ==
    LET relative == Chars[path]
        filename == Basename(relative)
    IN  \/ \E sfx \in {".g.dart", ".freezed.dart", ".mocks.dart", "_config.dart"} :
              EndsWith(filename, Chars[sfx])
        \/ \E k \in DOMAIN generated_patterns :
              StartsWith(relative, Chars[generated_patterns[k]])
        \/ Contains(relative, Chars["/regression/"]) /\ EndsWith(filename, Chars[".dart"])

\* if method_length > 50
pm_oversized_ge(method_length) == method_length >= PaMethodLimit

pm_oversized(method_length) == method_length > PaMethodLimit

\* A defaultdict(list): the keys it holds are those read or written so far.
DGet(d, k) == IF k \in DOMAIN d THEN d[k] ELSE <<>>

DTouch(d, k) == [x \in DOMAIN d \cup {k} |-> IF x \in DOMAIN d THEN d[x] ELSE <<>>]

DAppend(d, k, v) == [x \in DOMAIN d \cup {k} |-> IF x = k THEN Append(DGet(d, k), v) ELSE d[x]]

EmptyDict == [x \in {} |-> <<>>]

\* SOLIDAnalyzer.__init__, and generate_report not yet called
so_idle ==
    [pc |-> "main", f |-> 1, violations |-> <<>>, srp |-> <<>>, dip |-> <<>>, ocp |-> <<>>,
     report |-> <<>>]

\* ProjectAnalyzer.__init__
pa_new ==
    [stats |-> [total_files |-> 0, files_over_500 |-> 0,
                methods_over_50 |-> 0, total_lines |-> 0],
     violations |-> EmptyDict]

pm_idle ==
    [pc |-> "files", f |-> 1, i |-> 0, in_method |-> FALSE, method_name |-> <<>>,
     method_start |-> 0, brace_count |-> 0, spans |-> <<>>, ranking |-> <<>>,
     json |-> <<>>]

\* analyze_project: for dart_file in rglob, with analyze_file up to its call
\* of analyze_methods, whose locals are initialised.
PA_File ==
    /\ prog # <<>> /\ Head(prog) \in {"analyze_project", "ProjectAnalyzer.analyze_project"}
    /\ pm.pc = "files" /\ pm.f <= Len(tree)
    /\ is_excluded(tree[pm.f].path) \/ tree[pm.f].path \notin unreadable
    /\ LET file == tree[pm.f]
           line_count == NumLines(file.text)
       IN  IF is_excluded(file.path)
           THEN /\ pm' = [pm EXCEPT !.f = @ + 1]
                /\ pa' = pa
           ELSE /\ pa' = [pa EXCEPT
                            !.stats.total_files = @ + 1,
                            !.stats.total_lines = @ + line_count,
                            !.stats.files_over_500 =
                                IF line_count > FileLimit THEN @ + 1 ELSE @,
                            !.violations =
                                IF line_count > FileLimit
                                THEN DAppend(@, "files_over_500",
                                             [file |-> file.path, lines |-> line_count,
                                              excess |-> line_count - FileLimit])
                                ELSE @]
                /\ pm' = [pm EXCEPT !.pc = "lines", !.i = 0, !.in_method = FALSE,
                                    !.method_name = <<>>, !.method_start = 0,
                                    !.brace_count = 0]
    /\ UNCHANGED <<tree, prog, ms, dc, reports, plan, unreadable, so, norm>>

\* analyze_file does not catch what open() raises: the exception leaves
\* analyze_project and ends the script before generate_report and save_json.
PA_Crash ==
    /\ prog # <<>> /\ Head(prog) \in {"analyze_project", "ProjectAnalyzer.analyze_project"}
    /\ pm.pc = "files" /\ pm.f <= Len(tree)
    /\ ~is_excluded(tree[pm.f].path) /\ tree[pm.f].path \in unreadable
    /\ pm' = [pm EXCEPT !.pc = "crashed"]
    /\ prog' = Tail(prog)
    /\ UNCHANGED <<tree, pa, ms, dc, reports, plan, unreadable, so, norm>>

\* One turn of for i, line in enumerate(lines, 1); at its end analyze_methods
\* and analyze_file return.
PA_Line ==
    /\ pm.pc = "lines"
    /\ LET file == tree[pm.f] IN
       IF pm.i < NumLines(file.text)
       THEN LET i == pm.i + 1
                line == LineAt(file.text, i)
                match == pm_match[line]
            IN  IF pm_skipped[line]
                THEN pm' = [pm EXCEPT !.i = i] /\ pa' = pa
                ELSE IF match # NoMatch /\ ~pm.in_method
                THEN /\ pm' = [pm EXCEPT !.i = i,
                                         !.method_name = Group1(Chars[line], match),
                                         !.method_start = i,
                                         !.in_method = TRUE,
                                         !.brace_count = pm_delta[line]]
                     /\ pa' = pa
                ELSE IF pm.in_method
                THEN LET brace_count == pm.brace_count + pm_delta[line]
                         method_length == i - pm.method_start + 1
                         record == [file |-> file.path, method |-> pm.method_name,
                                    lines |-> method_length,
                                    start_line |-> pm.method_start, end_line |-> i]
                     IN  IF brace_count = 0
                         THEN /\ pm' = [pm EXCEPT !.i = i, !.in_method = FALSE,
                                                  !.method_name = <<>>,
                                                  !.brace_count = 0,
                                                  !.spans = Append(@, record)]
                              /\ pa' = IF pm_oversized(method_length)
                                       THEN [pa EXCEPT
                                               !.stats.methods_over_50 = @ + 1,
                                               !.violations =
                                                   DAppend(@, "methods_over_50", record)]
                                       ELSE pa
                         ELSE /\ pm' = [pm EXCEPT !.i = i, !.brace_count = brace_count]
                              /\ pa' = pa
                ELSE pm' = [pm EXCEPT !.i = i] /\ pa' = pa
       ELSE pm' = [pm EXCEPT !.pc = "files", !.f = @ + 1] /\ pa' = pa
    /\ UNCHANGED <<tree, prog, ms, dc, reports, plan, unreadable, so, norm>>

RECURSIVE Sum(_)
Sum(ns) == IF ns = <<>> THEN 0 ELSE Head(ns) + Sum(Tail(ns))

\* The members of S in ascending order
Ascending(S) ==
    [r \in 1..Cardinality(S) |-> CHOOSE x \in S : Cardinality({y \in S : y < x}) = r - 1]

\* The keys of a dict in insertion order, given the keys in the order written
FirstSeen(ks) ==
    LET first == {k \in 1..Len(ks) : \A m \in 1..(k - 1) : ks[m] # ks[k]}
        at == Ascending(first)
    IN  [r \in 1..Len(at) |-> ks[at[r]]]

\* (v['excess'] // 100) * 10: 10 points for every 100 lines over the limit
size_points_each(excess) == excess \div 10

size_points(excess) == (excess \div 100) * 10

\* 1 point for every line over the limit
method_points_each(lines) == lines - 50

\* (v['lines'] - 50) // 10: 1 point for every 10 lines over the limit
method_points(lines) == (lines - 50) \div 10

\* generate_report: file_scores, a dict keyed by file in insertion order
file_scores(violations) ==
    LET big == DGet(violations, "files_over_500")
        long == DGet(violations, "methods_over_50")
        keys == FirstSeen([k \in 1..Len(big) |-> big[k].file]
                          \o [k \in 1..Len(long) |-> long[k].file])
        of(file, vs) == SelectSeq(vs, LAMBDA v : v.file = file)
        row(file) ==
            LET b == of(file, big)
                l == of(file, long)
            IN  [file |-> file,
                 score |-> Sum([k \in 1..Len(b) |-> size_points(b[k].excess)])
                           + Sum([k \in 1..Len(l) |-> method_points(l[k].lines)]),
                 violations |-> Len(b) + Len(l),
                 lines |-> IF b = <<>> THEN 0 ELSE b[Len(b)].lines]
    IN  [k \in 1..Len(keys) |-> row(keys[k])]

\* key=lambda x: x[1]['score']
item_score(xs) == [k \in 1..Len(xs) |-> xs[k].score]

\* sorted(file_scores.items(), key=score, reverse=True)[:20]
sorted_files(violations) ==
    Take(SortDesc(file_scores(violations), item_score(file_scores(violations))), TopFiles)

\* generate_report, called by the script once analyze_project has returned
PA_Report ==
    /\ prog # <<>> /\ Head(prog) = "analyze_project"
    /\ pm.pc = "files" /\ pm.f > Len(tree)
    /\ pa' = [pa EXCEPT !.violations = DTouch(DTouch(@, "files_over_500"), "methods_over_50")]
    /\ pm' = [pm EXCEPT !.pc = "report", !.ranking = sorted_files(pa.violations)]
    /\ UNCHANGED <<tree, prog, ms, dc, reports, plan, unreadable, so, norm>>

\* save_json, the last call of the script
PA_SaveJson ==
    /\ pm.pc = "report"
    /\ pm' = [pm EXCEPT !.pc = "done",
                        !.json = [stats |-> pa.stats, violations |-> pa.violations]]
    /\ prog' = Tail(prog)
    /\ UNCHANGED <<tree, pa, ms, dc, reports, plan, unreadable, so, norm>>

\* analyzer.analyze_project() called once more on the ProjectAnalyzer the
\* script has built: the loops over lib and test start again,
PA_Again ==
    /\ prog # <<>> /\ Head(prog) = "ProjectAnalyzer.analyze_project"
    /\ pm.pc = "done"
    /\ pm' = [pm EXCEPT !.pc = "files", !.f = 1]
    /\ UNCHANGED <<tree, prog, pa, ms, dc, reports, plan, unreadable, so, norm>>

\* and the call returns after the last file.
PA_Return ==
    /\ prog # <<>> /\ Head(prog) = "ProjectAnalyzer.analyze_project"
    /\ pm.pc = "files" /\ pm.f > Len(tree)
    /\ pm' = [pm EXCEPT !.pc = "done"]
    /\ prog' = Tail(prog)
    /\ UNCHANGED <<tree, pa, ms, dc, reports, plan, unreadable, so, norm>>

\* ------------------------------------------------ generate_final_report.py

\* generate_refactoring_plan: file_impacts, a dict keyed by file in insertion
\* order, from the violations of analysis_results.json
file_impacts(violations) ==
    LET files_over_500 == DGet(violations, "files_over_500")
        methods_over_50 == DGet(violations, "methods_over_50")
        keys == FirstSeen([k \in 1..Len(files_over_500) |-> files_over_500[k].file]
                          \o [k \in 1..Len(methods_over_50) |-> methods_over_50[k].file])
        of(file, vs) == SelectSeq(vs, LAMBDA v : v.file = file)
        row(file) ==
            LET b == of(file, files_over_500)
                l == of(file, methods_over_50)
            IN  [file |-> file,
                 score |-> Sum([k \in 1..Len(b) |-> (b[k].excess \div 100) * 10])
                           + Sum([k \in 1..Len(l) |-> (l[k].lines - 50) \div 10]),
                 size |-> IF b = <<>> THEN 0 ELSE b[1].lines,
                 issues |-> Len(b) + Len(l)]
    IN  [k \in 1..Len(keys) |-> row(keys[k])]

\* generate_final_report: load_analysis_results reads the file save_json
\* wrote (json.load gives back the lists and the numbers json.dump was
\* given), and generate_refactoring_plan ranks the files.
GR_Plan ==
    /\ prog # <<>> /\ Head(prog) = "generate_final_report"
    /\ plan' = IF pm.json = <<>> THEN <<>>
               ELSE Take(SortDesc(file_impacts(pm.json.violations),
                                  item_score(file_impacts(pm.json.violations))), TopPlan)
    /\ prog' = Tail(prog)
    /\ UNCHANGED <<tree, ms, pa, pm, dc, reports, unreadable, so, norm>>

\* --------------------------------------------------- analyze_dead_code.py

\* sorted(duplicates, ...)[:30] (find_duplications)
DupCap == 30

\* f.read(): the lines of the file joined by newlines
RECURSIVE Content(_)
Content(text) ==
    IF text = <<>> THEN <<>>
    ELSE LET rest == IF text[1][2] > 1
                     THEN <<<<text[1][1], text[1][2] - 1>>>> \o Tail(text)
                     ELSE Tail(text)
         IN  Chars[text[1][1]] \o (IF rest = <<>> THEN <<>> ELSE <<"\n">> \o Content(rest))

quote == In({"'", "\""})

\* import_pattern
import_pattern ==
    Cat(<<Lit(Chars["import"]), Plus(ws), quote,
          Grp(Plus(NotIn({"'", "\""}))), quote>>)

\* export_pattern
export_pattern ==
    Cat(<<Lit(Chars["export"]), Plus(ws), quote,
          Grp(Plus(NotIn({"'", "\""}))), quote>>)

\* class_pattern
class_pattern ==
    Cat(<<Lit(Chars["class"]), Plus(ws), Grp(Plus(w)),
          Alt(<<Cat(<<Plus(ws), Lit(Chars["extends"])>>),
                Cat(<<Plus(ws), Lit(Chars["implements"])>>),
                Cat(<<Plus(ws), Lit(Chars["with"])>>),
                Cat(<<Star(ws), Lit(Chars["{"])>>)>>)>>)

\* r'\b' + class_name + r'\b'
usage_pattern(class_name) == Cat(<<WordB, Lit(class_name), WordB>>)

\* func_pattern
func_pattern ==
    Grp(Cat(<<Alt(<<Lit(Chars["Future"]), Lit(Chars["void"]), Lit(Chars["int"]),
                    Lit(Chars["String"]), Lit(Chars["bool"]), Lit(Chars["List"]),
                    Lit(Chars["Map"]), Lit(Chars["dynamic"])>>),
              Plus(ws), Plus(w), Star(ws),
              Lit(Chars["("]), Star(NotIn({")"})), Lit(Chars[")"])>>))

\* [match.group(1) for match in re.finditer(re, content)]
Groups(re, content) ==
    LET ms_ == ReFindIter(re, content)
    IN  [k \in 1..Len(ms_) |-> Group1(content, ms_[k])]

\* re.sub(r'\s+', ' ', s): every run of whitespace becomes one space
CollapseSpace(s) ==
    LET kept == {p \in 1..Len(s) : s[p] \notin Space \/ p = 1 \/ s[p - 1] \notin Space}
        at == Ascending(kept)
    IN  [r \in 1..Len(at) |-> IF s[at[r]] \in Space THEN " " ELSE s[at[r]]]

\* A normalization that strips one whitespace character from each end only
normalized_strip_one(signature) ==
    LET a == IF Len(signature) > 0 /\ signature[1] \in Space THEN 2 ELSE 1
        b == IF Len(signature) >= a /\ signature[Len(signature)] \in Space
             THEN Len(signature) - 1 ELSE Len(signature)
    IN  CollapseSpace(SubSeq(signature, a, b))

\* normalized = re.sub(r'\s+', ' ', match.group(1).strip())
normalized(signature) == CollapseSpace(StrStrip(signature))

\* not import_path.startswith('package:flutter') and not import_path.startswith('dart:')
import_kept(import_path) ==
    /\ ~StartsWith(import_path, Chars["package:flutter"])
    /\ ~StartsWith(import_path, Chars["dart:"])

\* The contents the dead-code analysis is run on: declarations, uses and
\* imports of classes,
DeadTexts ==
    {<<<<"class A {}", 1>>>>,
     <<<<"A x;", 1>>>>,
     <<<<"import 'b.dart';", 1>>, <<"A x;", 1>>>>,
     <<<<"class AB {}", 1>>>>,
     <<<<"class AB {}", 1>>, <<"A x;", 1>>>>,
     <<<<"import 'data.dart';", 1>>>>,
     <<<<"import 'package:flutter/a.dart';", 1>>, <<"class A {}", 1>>>>,
     <<<<"export 'b.dart';", 1>>, <<"class A {}", 2>>>>}

\* and function headers
DupTexts ==
    {<<<<"void loadData(String id, bool force) {}", 1>>>>,
     <<<<"void loadData(String id, bool force) {}", 1>>,
       <<"void  loadData(String id,", 1>>, <<"    bool force) {}", 1>>,
       <<"void loadData(String id, bool force) {}", 1>>>>,
     <<<<"Future<void> loadData(String id, bool force) {}", 1>>>>,
     <<<<"void loadDat(String id, int n) {}", 3>>>>,
     <<<<"void loadData(String id, int n) {}", 1>>>>}

\* and a method
MethodText == <<<<"void f() {", 1>>, <<"x;", 1>>, <<"}", 1>>>>

\* and files with as many signatures as the report keeps clusters, or one
\* more.
CapLines ==
    <<
      "void loadData01(String id, bool force) {}",
      "void loadData02(String id, bool force) {}",
      "void loadData03(String id, bool force) {}",
      "void loadData04(String id, bool force) {}",
      "void loadData05(String id, bool force) {}",
      "void loadData06(String id, bool force) {}",
      "void loadData07(String id, bool force) {}",
      "void loadData08(String id, bool force) {}",
      "void loadData09(String id, bool force) {}",
      "void loadData10(String id, bool force) {}",
      "void loadData11(String id, bool force) {}",
      "void loadData12(String id, bool force) {}",
      "void loadData13(String id, bool force) {}",
      "void loadData14(String id, bool force) {}",
      "void loadData15(String id, bool force) {}",
      "void loadData16(String id, bool force) {}",
      "void loadData17(String id, bool force) {}",
      "void loadData18(String id, bool force) {}",
      "void loadData19(String id, bool force) {}",
      "void loadData20(String id, bool force) {}",
      "void loadData21(String id, bool force) {}",
      "void loadData22(String id, bool force) {}",
      "void loadData23(String id, bool force) {}",
      "void loadData24(String id, bool force) {}",
      "void loadData25(String id, bool force) {}",
      "void loadData26(String id, bool force) {}",
      "void loadData27(String id, bool force) {}",
      "void loadData28(String id, bool force) {}",
      "void loadData29(String id, bool force) {}",
      "void loadData30(String id, bool force) {}",
      "void loadData31(String id, bool force) {}"
    >>

CapText(n) == [k \in 1..n |-> <<CapLines[k], 1>>]

CapTexts == {CapText(1), CapText(DupCap), CapText(DupCap + 1)}

DcTexts == DeadTexts \cup DupTexts \cup {MethodText} \cup CapTexts

\* What the patterns of analyze_imports_exports and find_duplications find in
\* each content
dc_found ==
    [t \in DcTexts |->
        LET content == Content(t)
            sigs == Groups(func_pattern, content)
        IN  [imports |-> Groups(import_pattern, content),
             exports |-> Groups(export_pattern, content),
             classes |-> Groups(class_pattern, content),
             signatures |-> [k \in 1..Len(sigs) |-> normalized(sigs[k])]]]

ClassNames == UNION {Range(dc_found[t].classes) : t \in DOMAIN dc_found}

\* re.search(r'\b' + class_name + r'\b', content), for every class name
dc_used ==
    [t \in DOMAIN dc_found |->
        {c \in ClassNames : ReSearch(usage_pattern(c), Content(t))}]

\* DeadCodeAnalyzer.__init__
dc_new ==
    [pc |-> "scan", lib_files |-> <<>>, test_files |-> <<>>,
     imports |-> {}, exports |-> {},
     class_definitions |-> <<>>, class_usages |-> [c \in {} |-> 0],
     k |-> 1, unused_files |-> <<>>, unused_classes |-> <<>>, duplications |-> <<>>]

dc_idle == [dc_new EXCEPT !.pc = "main"]

\* The orders in which rglob, or the iteration of a set, can yield S
Orders(S) ==
    {o \in [1..Cardinality(S) -> S] : \A a, b \in DOMAIN o : o[a] = o[b] => a = b}

TextOf(path) == (CHOOSE f \in Range(tree) : f.path = path).text

\* all_files = self.lib_files + self.test_files
all_files == dc.lib_files \o dc.test_files

\* __main__: analyzer = DeadCodeAnalyzer(project_path)
DC_Main ==
    /\ prog # <<>> /\ Head(prog) = "analyze_dead_code"
    /\ dc.pc = "main"
    /\ dc' = dc_new
    /\ UNCHANGED <<tree, prog, ms, pa, pm, reports, plan, unreadable, so, norm>>

\* analyzer.generate_report() called once more on the DeadCodeAnalyzer the
\* script has built
DC_Again ==
    /\ prog # <<>> /\ Head(prog) = "DeadCodeAnalyzer.generate_report"
    /\ dc.pc = "main"
    /\ dc' = [dc EXCEPT !.pc = "scan", !.k = 1]
    /\ UNCHANGED <<tree, prog, ms, pa, pm, reports, plan, unreadable, so, norm>>

\* scan_files: the files under lib, then those under test, each in the order
\* rglob yields them
DC_Scan ==
    /\ dc.pc = "scan"
    /\ \E lib \in Orders({p \in Paths : StartsWith(Chars[p], Chars["lib/"])}),
          test \in Orders({p \in Paths : StartsWith(Chars[p], Chars["test/"])}) :
          dc' = [dc EXCEPT !.pc = "analyze",
                           !.lib_files = @ \o lib,
                           !.test_files = @ \o test]
    /\ UNCHANGED <<tree, prog, ms, pa, pm, reports, plan, unreadable, so, norm>>

\* What the patterns find in the file at file_path: nothing if open() raises,
\* since the except clause passes over the file
dc_read(file_path) ==
    IF file_path \in unreadable
    THEN [imports |-> <<>>, exports |-> <<>>, classes |-> <<>>, signatures |-> <<>>]
    ELSE dc_found[TextOf(file_path)]

\* The class names the usage search finds in the file at file_path
dc_named(file_path) ==
    IF file_path \in unreadable THEN {} ELSE dc_used[TextOf(file_path)]

\* How often v occurs in xs
Times(xs, v) == Cardinality({k \in DOMAIN xs : xs[k] = v})

\* The keys of class_definitions, a dict in insertion order
dc_class_names(class_definitions) ==
    [k \in 1..Len(class_definitions) |-> class_definitions[k].class]

\* One turn of for file_path in all_files (analyze_imports_exports): the
\* imports, exports and class definitions of the file, then the usages of the
\* classes defined so far.
DC_Analyze ==
    /\ dc.pc = "analyze"
    /\ IF dc.k <= Len(all_files)
       THEN LET file_path == all_files[dc.k]
                found == dc_read(file_path)
                names == FirstSeen(dc_class_names(dc.class_definitions) \o found.classes)
                old(c) == IF \E d \in Range(dc.class_definitions) : d.class = c
                          THEN (CHOOSE d \in Range(dc.class_definitions) : d.class = c).files
                          ELSE <<>>
                class_definitions ==
                    [n \in 1..Len(names) |->
                        [class |-> names[n],
                         files |-> old(names[n])
                                   \o [m \in 1..Times(found.classes, names[n]) |-> file_path]]]
                used == Range(names) \cap dc_named(file_path)
            IN  dc' = [dc EXCEPT
                         !.imports = @ \cup {<<file_path, i>> :
                                              i \in {x \in Range(found.imports) : import_kept(x)}},
                         !.exports = @ \cup {<<file_path, e>> : e \in Range(found.exports)},
                         !.class_definitions = class_definitions,
                         !.class_usages =
                             [c \in DOMAIN @ \cup used |->
                                 (IF c \in DOMAIN @ THEN @[c] ELSE 0)
                                 + (IF c \in used THEN 1 ELSE 0)],
                         !.k = @ + 1]
       ELSE dc' = [dc EXCEPT !.pc = "find_unused_files"]
    /\ UNCHANGED <<tree, prog, ms, pa, pm, reports, plan, unreadable, so, norm>>

\* find_unused_files: the files it skips,
dc_skipped(file_path) ==
    \/ Contains(Chars[file_path], Chars[".g.dart"])
    \/ Contains(Chars[file_path], Chars[".mocks.dart"])
    \/ Contains(Chars[file_path], Chars["export.dart"])
    \/ EndsWith(Chars[file_path], Chars["main.dart"])

\* and is_imported
dc_is_imported(file_path, all_imports) ==
    \E imp \in all_imports :
        \/ Contains(imp, Basename(Chars[file_path]))
        \/ Contains(imp, ReplaceCh(Chars[file_path], "\\", "/"))

DC_UnusedFiles ==
    /\ dc.pc = "find_unused_files"
    /\ LET all_imports == {i[2] : i \in dc.imports}
           unused(file_path) == ~dc_skipped(file_path)
                                /\ ~dc_is_imported(file_path, all_imports)
       IN  dc' = [dc EXCEPT !.pc = "find_unused_classes",
                            !.unused_files = SelectSeq(dc.lib_files, unused)]
    /\ UNCHANGED <<tree, prog, ms, pa, pm, reports, plan, unreadable, so, norm>>

\* self.class_usages.get(class_name, 0)
dc_usage_count(class_usages, class_name) ==
    IF class_name \in DOMAIN class_usages THEN class_usages[class_name] ELSE 0

\* if usage_count <= 1
dc_rarely_used_lt(usage_count) == usage_count < 1

\* A test that also takes a class with two usages
dc_rarely_used_twice(usage_count) == usage_count <= 2

dc_rarely_used(usage_count) == usage_count <= 1

\* key=lambda x: x['usage_count']
dc_by_usage(xs) == [k \in 1..Len(xs) |-> xs[k].usage_count]

DC_UnusedClasses ==
    /\ dc.pc = "find_unused_classes"
    /\ LET item(d) == [class |-> d.class, defined_in |-> d.files,
                       usage_count |-> dc_usage_count(dc.class_usages, d.class)]
           items == [k \in 1..Len(dc.class_definitions) |-> item(dc.class_definitions[k])]
           unused == SelectSeq(items, LAMBDA x : dc_rarely_used(x.usage_count))
       IN  dc' = [dc EXCEPT !.pc = "find_duplications",
                            !.unused_classes = SortAsc(unused, dc_by_usage(unused))]
    /\ UNCHANGED <<tree, prog, ms, pa, pm, reports, plan, unreadable, so, norm>>

\* find_duplications: the normalized signatures of the files in the order
\* they are appended to signatures, each with its file
RECURSIVE dc_occurrences(_)
dc_occurrences(files) ==
    IF files = <<>> THEN <<>>
    ELSE LET sigs == dc_read(Head(files)).signatures
         IN  [k \in 1..Len(sigs) |-> [sig |-> sigs[k], file |-> Head(files)]]
             \o dc_occurrences(Tail(files))

\* if len(files) > 2 and len(sig) > 30
dc_duplicated_ge(sig, files) == Len(files) >= 2 /\ Len(sig) > 30

dc_duplicated(sig, files) == Len(files) > 2 /\ Len(sig) > 30

\* key=lambda x: x['count']
dc_by_count(xs) == [k \in 1..Len(xs) |-> xs[k].count]

\* The items of signatures that pass the test of line 155, in the order of
\* the dict: each signature with the list of the files of its occurrences.
dc_signatures(occurrences) ==
    LET keys == FirstSeen([k \in 1..Len(occurrences) |-> occurrences[k].sig])
        files(sig) == LET at == SelectSeq(occurrences, LAMBDA x : x.sig = sig)
                      IN  [k \in 1..Len(at) |-> at[k].file]
        dups == SelectSeq(keys, LAMBDA sig : dc_duplicated(sig, files(sig)))
    IN  [n \in 1..Len(dups) |-> [sig |-> dups[n], files |-> files(dups[n])]]

\* The signature clusters of find_duplications before the sort; order[files]
\* is the order in which list(set(files)) yields the files: within one run,
\* sets built from the same list are iterated in the same order.
dc_duplicates(signatures, order) ==
    [n \in 1..Len(signatures) |->
        [signature |-> signatures[n].sig,
         files |-> SelectSeq(order[signatures[n].files],
                             LAMBDA f : f \in Range(signatures[n].files)),
         count |-> Len(signatures[n].files)]]

DC_Duplications ==
    /\ dc.pc = "find_duplications"
    /\ \E signatures \in {dc_signatures(dc_occurrences(all_files))} :
       \E order \in [{x.files : x \in Range(signatures)} -> Orders(Range(all_files))] :
       \E duplicates \in {dc_duplicates(signatures, order)} :
          dc' = [dc EXCEPT
                   !.pc = "report",
                   !.duplications =
                       Take(SortDesc(duplicates, dc_by_count(duplicates)), DupCap)]
    /\ UNCHANGED <<tree, prog, ms, pa, pm, reports, plan, unreadable, so, norm>>

\* generate_report, from the three results on, and the print of __main__
DC_Report ==
    /\ dc.pc = "report"
    /\ dc' = [dc EXCEPT !.pc = "main"]
    /\ reports' = Append(reports, [unused_files |-> dc.unused_files,
                                   unused_classes |-> dc.unused_classes,
                                   duplications |-> dc.duplications])
    /\ prog' = Tail(prog)
    /\ UNCHANGED <<tree, ms, pa, pm, plan, unreadable, so, norm>>

\* ------------------------------------------------------ analyze_solid.py

\* if public_methods > 15
SrpMethodLimit == 15

\* if imports > 20
SrpImportLimit == 20

\* if len(concrete_classes) > 5
DipLimit == 5

\* if case_count > 5
OcpLimit == 5

\* [:30] of the SRP table, [:20] of the DIP and OCP tables
SrpRows == 30

DipRows == 20

OcpRows == 20

\* r'^\s*(?!_)\w+\s+\w+\s*\(' with re.MULTILINE
public_methods_pattern ==
    Cat(<<BolM, Star(ws), NotAhead(<<"_">>), Plus(w), Plus(ws), Plus(w), Star(ws),
          Lit(Chars["("])>>)

\* r"import\s+['\"]"
imports_pattern == Cat(<<Lit(Chars["import"]), Plus(ws), quote>>)

\* r'class\s+(\w+)'
class_name_pattern == Cat(<<Lit(Chars["class"]), Plus(ws), Grp(Plus(w))>>)

\* r'=\s*(\w+)\s*\('
concrete_deps_pattern ==
    Cat(<<Lit(<<"=">>), Star(ws), Grp(Plus(w)), Star(ws), Lit(Chars["("])>>)

\* r'switch\s*\([^)]+\)\s*\{([^}]+)\}'
switch_cases_pattern ==
    Cat(<<Lit(Chars["switch"]), Star(ws), Lit(Chars["("]), Plus(NotIn({")"})),
          Lit(Chars[")"]), Star(ws), Lit(<<"{">>), Grp(Plus(NotIn({"}"}))),
          Lit(<<"}">>)>>)

\* r'case\s+'
case_count_pattern == Cat(<<Lit(Chars["case"]), Plus(ws)>>)

keywords ==
    <<"Repository", "Service", "Controller", "Manager", "Handler", "Provider", "Builder">>

\* responsibilities: the keywords that occur in class_name
responsibilities(class_name) ==
    Cardinality({k \in DOMAIN keywords : Contains(class_name, Chars[keywords[k]])})

\* dep[0].isupper() and dep not in ['String', 'List', 'Map', 'Set', 'Widget', 'State']
is_concrete(dep) ==
    /\ dep[1] \in Upper
    /\ dep \notin {Chars["String"], Chars["List"], Chars["Map"], Chars["Set"],
                   Chars["Widget"], Chars["State"]}

\* The contents the SOLID analysis is run on: a file without a class, with
\* a class whose name holds no, one or two keywords, or with two classes, and
\* in it methods, imports, instantiations or switches around the limits.
SoClasses ==
    {<<>>,
     <<<<"class A {", 1>>>>,
     <<<<"class UserService {", 1>>>>,
     <<<<"class UserServiceManager {", 1>>>>,
     <<<<"class A {", 1>>, <<"class UserServiceManager {", 1>>>>}

Switch(n) == <<<<"switch (x) {", 1>>, <<"case 1:", n>>, <<"}", 1>>>>

SoBodies ==
    {<<<<"x;", 1>>>>,
     <<<<"void f() {}", SrpMethodLimit>>>>,
     <<<<"void f() {}", SrpMethodLimit + 1>>>>,
     <<<<"import 'a.dart';", SrpImportLimit>>>>,
     <<<<"import 'a.dart';", SrpImportLimit + 1>>>>,
     <<<<"x = Foo();", DipLimit>>>>,
     <<<<"x = Foo();", DipLimit + 1>>>>,
     <<<<"x = Foo();", DipLimit>>, <<"x = List();", 1>>>>,
     Switch(OcpLimit),
     Switch(OcpLimit + 1),
     Switch(OcpLimit + 1) \o Switch(OcpLimit + 1),
     <<<<"import 'a.dart';", SrpImportLimit + 1>>, <<"void f() {}", SrpMethodLimit + 1>>>>}

SoTexts == {c \o b : c \in SoClasses, b \in SoBodies}

\* What the patterns of the three analyses find in each content
so_found ==
    [t \in SoTexts \cup DcTexts |->
        LET content == Content(t)
            deps == Groups(concrete_deps_pattern, content)
            switch_cases == Groups(switch_cases_pattern, content)
        IN  [public_methods |-> Len(ReFindIter(public_methods_pattern, content)),
             imports |-> Len(ReFindIter(imports_pattern, content)),
             class_names |-> Groups(class_name_pattern, content),
             concrete_classes |-> Cardinality({k \in DOMAIN deps : is_concrete(deps[k])}),
             case_counts |-> [k \in DOMAIN switch_cases |->
                                 Len(ReFindIter(case_count_pattern, switch_cases[k]))]]]

\* The violations analyze_srp_violations appends for one file
srp_of(path, m) ==
    IF m.class_names = <<>> THEN <<>>
    ELSE LET class_name == m.class_names[1]
             n == responsibilities(class_name)
         IN  (IF n > 1
              THEN <<[file |-> path, class |-> class_name, severity |-> "high",
                      reason |-> <<"responsibilities", n>>]>>
              ELSE <<>>)
             \o (IF m.public_methods > SrpMethodLimit
                 THEN <<[file |-> path, class |-> class_name, severity |-> "medium",
                         reason |-> <<"public_methods", m.public_methods>>]>>
                 ELSE <<>>)
             \o (IF m.imports > SrpImportLimit
                 THEN <<[file |-> path, class |-> class_name, severity |-> "low",
                         reason |-> <<"imports", m.imports>>]>>
                 ELSE <<>>)

\* The violations analyze_dip_violations appends for one file
dip_of(path, m) ==
    IF m.concrete_classes > DipLimit /\ m.class_names # <<>>
    THEN <<[file |-> path, class |-> m.class_names[1], severity |-> "medium",
            reason |-> <<"concrete_classes", m.concrete_classes>>]>>
    ELSE <<>>

\* The violations analyze_ocp_violations appends for one file: one for each
\* switch_content with more than five cases
RECURSIVE ocp_of(_, _, _)
ocp_of(path, m, k) ==
    IF k > Len(m.case_counts) THEN <<>>
    ELSE (IF m.case_counts[k] > OcpLimit /\ m.class_names # <<>>
          THEN <<[file |-> path, class |-> m.class_names[1], severity |-> "medium",
                  reason |-> <<"case_count", m.case_counts[k]>>]>>
          ELSE <<>>)
         \o ocp_of(path, m, k + 1)

\* __main__ builds the analyzer and calls generate_report
SO_Main ==
    /\ prog # <<>> /\ Head(prog) = "analyze_solid"
    /\ so.pc = "main"
    /\ so' = [so EXCEPT !.pc = "srp", !.f = 1]
    /\ UNCHANGED <<tree, prog, ms, pa, pm, dc, reports, plan, unreadable, norm>>

\* One turn of a for dart_file in lib_path.rglob('*.dart') loop: what the
\* analysis appends for the file, nothing when open() raises (except: pass);
\* after the last file, the next analysis or the report.
so_step(field, found, next) ==
    IF so.f > Len(dart_files) THEN [so EXCEPT !.pc = next, !.f = 1]
    ELSE IF dart_files[so.f].path \in unreadable THEN [so EXCEPT !.f = @ + 1]
    ELSE [so EXCEPT !.f = @ + 1, ![field] = @ \o found]

\* analyze_srp_violations
SO_Srp ==
    /\ so.pc = "srp"
    /\ so' = so_step("srp",
                     IF so.f > Len(dart_files) THEN <<>>
                     ELSE srp_of(dart_files[so.f].path, so_found[dart_files[so.f].text]),
                     "dip")
    /\ UNCHANGED <<tree, prog, ms, pa, pm, dc, reports, plan, unreadable, norm>>

\* analyze_dip_violations
SO_Dip ==
    /\ so.pc = "dip"
    /\ so' = so_step("dip",
                     IF so.f > Len(dart_files) THEN <<>>
                     ELSE dip_of(dart_files[so.f].path, so_found[dart_files[so.f].text]),
                     "ocp")
    /\ UNCHANGED <<tree, prog, ms, pa, pm, dc, reports, plan, unreadable, norm>>

\* analyze_ocp_violations
SO_Ocp ==
    /\ so.pc = "ocp"
    /\ so' = so_step("ocp",
                     IF so.f > Len(dart_files) THEN <<>>
                     ELSE ocp_of(dart_files[so.f].path, so_found[dart_files[so.f].text], 1),
                     "report")
    /\ UNCHANGED <<tree, prog, ms, pa, pm, dc, reports, plan, unreadable, norm>>

severity_rank(v) == CASE v.severity = "high" -> 0 [] v.severity = "medium" -> 1 [] v.severity = "low" -> 2

\* generate_report: the rows of the three tables and the total
SO_Report ==
    /\ so.pc = "report"
    /\ so' = [so EXCEPT !.pc = "done",
                        !.report = [srp |-> Take(SortAsc(so.srp, [k \in DOMAIN so.srp |->
                                                              severity_rank(so.srp[k])]), SrpRows),
                                    dip |-> Take(so.dip, DipRows),
                                    ocp |-> Take(so.ocp, OcpRows),
                                    total |-> Len(so.srp) + Len(so.dip) + Len(so.ocp)]]
    /\ prog' = Tail(prog)
    /\ UNCHANGED <<tree, ms, pa, pm, dc, reports, plan, unreadable, norm>>

NextSolid == SO_Main \/ SO_Srp \/ SO_Dip \/ SO_Ocp \/ SO_Report

\* ------------------------------------------------------------ the inputs

\* The lexical modes of a line: its text with the braces of string literals,
\* line comments and block comments left out.
RECURSIVE LexStrip(_, _, _, _, _)
LexStrip(cs, p, mode, q, esc) ==
    IF p > Len(cs) THEN <<>>
    ELSE LET c == cs[p]
             nxt == IF p < Len(cs) THEN cs[p + 1] ELSE ""
             keep == IF c \in {"{", "}"} THEN <<>> ELSE <<c>>
         IN  CASE mode = "Code" /\ c \in {"'", "\""} ->
                    <<c>> \o LexStrip(cs, p + 1, "String", c, FALSE)
               [] mode = "Code" /\ c = "/" /\ nxt = "/" ->
                    <<c>> \o LexStrip(cs, p + 1, "LineComment", q, FALSE)
               [] mode = "Code" /\ c = "/" /\ nxt = "*" ->
                    <<c, nxt>> \o LexStrip(cs, p + 2, "BlockComment", q, FALSE)
               [] mode = "Code" /\ ~(c \in {"'", "\""}) /\ ~(c = "/" /\ nxt \in {"/", "*"}) ->
                    <<c>> \o LexStrip(cs, p + 1, "Code", q, FALSE)
               [] mode = "String" /\ esc -> keep \o LexStrip(cs, p + 1, mode, q, FALSE)
               [] mode = "String" /\ ~esc /\ c = "\\" ->
                    <<c>> \o LexStrip(cs, p + 1, mode, q, TRUE)
               [] mode = "String" /\ ~esc /\ c = q ->
                    <<c>> \o LexStrip(cs, p + 1, "Code", q, FALSE)
               [] mode = "String" /\ ~esc /\ c # "\\" /\ c # q ->
                    keep \o LexStrip(cs, p + 1, mode, q, FALSE)
               [] mode = "LineComment" -> keep \o LexStrip(cs, p + 1, mode, q, FALSE)
               [] mode = "BlockComment" /\ c = "*" /\ nxt = "/" ->
                    <<c, nxt>> \o LexStrip(cs, p + 2, "Code", q, FALSE)
               [] mode = "BlockComment" /\ ~(c = "*" /\ nxt = "/") ->
                    keep \o LexStrip(cs, p + 1, mode, q, FALSE)

Spelling(cs) == CHOOSE s \in DOMAIN Chars : Chars[s] = cs

\* A text with the braces of its literals and comments removed, line by line
\* (no literal or comment of the lines below runs over the end of its line).
Sanitized(text) ==
    [k \in 1..Len(text) |-> <<Spelling(LexStrip(Chars[text[k][1]], 1, "Code", "", FALSE)),
                              text[k][2]>>]

\* The lexical mode after the characters of line ln from p on, st the mode
\* before them; st.at is the line on which a mode other than Code began.
RECURSIVE LexLine(_, _, _, _)
LexLine(cs, p, st, ln) ==
    IF p > Len(cs) THEN st
    ELSE LET c == cs[p]
             nxt == IF p < Len(cs) THEN cs[p + 1] ELSE ""
         IN  CASE st.mode = "Code" /\ c \in {"'", "\""} ->
                    LexLine(cs, p + 1, [mode |-> "String", q |-> c, esc |-> FALSE, at |-> ln], ln)
               [] st.mode = "Code" /\ c = "/" /\ nxt = "/" -> st
               [] st.mode = "Code" /\ c = "/" /\ nxt = "*" ->
                    LexLine(cs, p + 2, [st EXCEPT !.mode = "BlockComment", !.at = ln], ln)
               [] st.mode = "Code" /\ ~(c \in {"'", "\""}) /\ ~(c = "/" /\ nxt \in {"/", "*"}) ->
                    LexLine(cs, p + 1, st, ln)
               [] st.mode = "String" /\ st.esc -> LexLine(cs, p + 1, [st EXCEPT !.esc = FALSE], ln)
               [] st.mode = "String" /\ ~st.esc /\ c = "\\" ->
                    LexLine(cs, p + 1, [st EXCEPT !.esc = TRUE], ln)
               [] st.mode = "String" /\ ~st.esc /\ c = st.q ->
                    LexLine(cs, p + 1, [st EXCEPT !.mode = "Code"], ln)
               [] st.mode = "String" /\ ~st.esc /\ c # "\\" /\ c # st.q ->
                    LexLine(cs, p + 1, st, ln)
               [] st.mode = "BlockComment" /\ c = "*" /\ nxt = "/" ->
                    LexLine(cs, p + 2, [st EXCEPT !.mode = "Code"], ln)
               [] st.mode = "BlockComment" /\ ~(c = "*" /\ nxt = "/") ->
                    LexLine(cs, p + 1, st, ln)

\* The lexical mode at the end of a text, line ln and the lines after it
\* scanned from mode st; the newline between two lines takes a pending
\* escape.
RECURSIVE LexFrom(_, _, _)
LexFrom(text, ln, st) ==
    IF ln > NumLines(text) THEN st
    ELSE LET end == LexLine(Chars[LineAt(text, ln)], 1, st, ln)
         IN  IF ln = NumLines(text) THEN end
             ELSE LexFrom(text, ln + 1, [end EXCEPT !.esc = FALSE])

EndMode(text) == LexFrom(text, 1, [mode |-> "Code", q |-> "", esc |-> FALSE, at |-> 0])

\* The text ends inside a string literal or a block comment
Truncated(text) == EndMode(text).mode \in {"String", "BlockComment"}

\* The longest text enumerated line by line
MaxLines == 4

\* How far over the limit the long methods reach
MaxOver == 2

Vocab == {"void f() {", "}", "if (a) {", "s = \"}\";", "// {", ""}

SmallTexts ==
    UNION {{[k \in 1..n |-> <<v[k], 1>>] : v \in [1..n -> Vocab]} : n \in 1..MaxLines}

\* A method of m lines alone in its file, and one followed by a method of
\* m + 1 lines
LongTexts ==
    LET method(m) == <<<<"void f() {", 1>>, <<"x;", m - 2>>, <<"}", 1>>>>
        sizes == (MethodLimit - 1)..(MethodLimit + MaxOver)
    IN  {method(m) \o <<<<"", 1>>>> : m \in sizes}
        \cup {method(m) \o method(m + 1) \o <<<<"", 1>>>> : m \in sizes}

\* A file and, beside it, the same file without the braces of its literals
\* and comments.
InitMethods ==
    /\ \E t \in SmallTexts \cup LongTexts :
          tree = <<[path |-> "lib/a.dart", text |-> t],
                   [path |-> "lib/b.dart", text |-> Sanitized(t)]>>
    /\ prog = <<"analyze_methods", "analyze_project">>
    /\ ms = ms_idle
    /\ pa = pa_new
    /\ pm = pm_idle
    /\ dc = dc_idle
    /\ reports = <<>>
    /\ plan = <<>>
    /\ unreadable = {}
    /\ so = so_idle
    /\ norm = <<>>

NextMethods ==
    \/ MS_Main \/ MS_Outer \/ MS_Inner \/ MS_Sort
    \/ PA_File \/ PA_Line \/ PA_Report \/ PA_SaveJson

SpecMethods == InitMethods /\ [][NextMethods]_vars

Spec == SpecMethods

\* The most files of a project of declarations, uses and imports
MaxDeadFiles == 2

\* The most files of a project of function headers
MaxDupFiles == 3

DeadPaths == <<"lib/a.dart", "lib/b.dart", "lib/main.dart", "lib/a.g.dart",
               "test/a_test.dart">>

DupPaths == <<"lib/a.dart", "lib/b.dart", "test/a_test.dart", "test/b_test.dart">>

\* Up to MaxDeadFiles of DeadPaths, each with one of DeadTexts
DeadTrees ==
    UNION {{[k \in 1..Cardinality(S) |-> [path |-> DeadPaths[Ascending(S)[k]], text |-> tx[k]]] :
               tx \in [1..Cardinality(S) -> DeadTexts]} :
           S \in {S \in SUBSET (1..Len(DeadPaths)) : Cardinality(S) \in 1..MaxDeadFiles}}

\* The first files of DupPaths, up to MaxDupFiles, each with one of DupTexts
DupTrees ==
    UNION {{[k \in 1..n |-> [path |-> DupPaths[k], text |-> tx[k]]] :
               tx \in [1..n -> DupTexts]} :
           n \in 1..MaxDupFiles}

InitOn(trees, scripts) ==
    /\ tree \in trees
    /\ prog = scripts
    /\ ms = ms_idle
    /\ pa = pa_new
    /\ pm = pm_idle
    /\ dc = dc_idle
    /\ reports = <<>>
    /\ plan = <<>>
    /\ unreadable = {}
    /\ so = so_idle
    /\ norm = <<>>

NextDead ==
    \/ DC_Main \/ DC_Scan \/ DC_Analyze
    \/ DC_UnusedFiles \/ DC_UnusedClasses \/ DC_Duplications \/ DC_Report

\* One run of analyze_dead_code.py on a project of classes and imports,
InitDead == InitOn(DeadTrees, <<"analyze_dead_code">>)

SpecDead == InitDead /\ [][NextDead]_vars

\* one run on a project of function headers,
InitDup == InitOn(DupTrees, <<"analyze_dead_code">>)

SpecDup == InitDup /\ [][NextDead]_vars

\* and two runs on the same project.
InitDet == InitOn(DeadTrees \cup DupTrees, <<"analyze_dead_code", "analyze_dead_code">>)

SpecDet == InitDet /\ [][NextDead]_vars


\* The most files of a project of long files and long methods
MaxProjFiles == 2

ProjPaths == <<"lib/a.dart", "lib/b.dart", "lib/c.dart">>

\* Files of 501 and of 600 lines without a method, a file of 650 lines that
\* holds a method of 75 lines, and files that are one method of 150 and of 75
\* lines
ProjTexts ==
    {<<<<"x;", 501>>>>,
     <<<<"x;", 600>>>>,
     <<<<"x;", 100>>, <<"void f() {", 1>>, <<"x;", 73>>, <<"}", 1>>, <<"x;", 475>>>>,
     <<<<"void f() {", 1>>, <<"x;", 148>>, <<"}", 1>>>>,
     <<<<"void f() {", 1>>, <<"x;", 73>>, <<"}", 1>>>>}

ProjTrees ==
    UNION {{[k \in 1..n |-> [path |-> ProjPaths[k], text |-> tx[k]]] :
               tx \in [1..n -> ProjTexts]} :
           n \in 1..MaxProjFiles}

\* analyze_project.py, then generate_final_report.py, on a project of long
\* files and long methods
InitProject == InitOn(ProjTrees, <<"analyze_project", "generate_final_report">>)

NextProject == PA_File \/ PA_Line \/ PA_Report \/ PA_SaveJson \/ GR_Plan

SpecProject == InitProject /\ [][NextProject]_vars

\* Each script, and then the scan of its analyzer once more on the same
\* object
InitRescan ==
    InitOn(DeadTrees \cup DupTrees,
           <<"analyze_dead_code", "DeadCodeAnalyzer.generate_report",
             "analyze_project", "ProjectAnalyzer.analyze_project">>)

NextRescan ==
    \/ NextDead \/ DC_Again
    \/ PA_File \/ PA_Line \/ PA_Report \/ PA_SaveJson \/ PA_Again \/ PA_Return

SpecRescan == InitRescan /\ [][NextRescan]_vars

\* Projects of one and of two files that hold a method each
MethodTrees ==
    {<<[path |-> "lib/a.dart", text |-> MethodText]>>,
     <<[path |-> "lib/a.dart", text |-> MethodText],
       [path |-> "lib/b.dart", text |-> MethodText]>>}

\* The scripts on a project some of whose files cannot be read
InitUnreadable ==
    /\ tree \in DeadTrees \cup MethodTrees
    /\ unreadable \in SUBSET Paths
    /\ prog = <<"analyze_methods", "analyze_dead_code", "analyze_solid", "analyze_project">>
    /\ ms = ms_idle /\ pa = pa_new /\ pm = pm_idle /\ dc = dc_idle
    /\ reports = <<>> /\ plan = <<>> /\ so = so_idle /\ norm = <<>>

NextUnreadable == NextMethods \/ PA_Crash \/ NextDead \/ NextSolid

SpecUnreadable == InitUnreadable /\ [][NextUnreadable]_vars

\* The most files in a project with more files to rank than a table shows
MaxRankFiles == 21

RankPaths ==
    <<
      "lib/f01.dart",
      "lib/f02.dart",
      "lib/f03.dart",
      "lib/f04.dart",
      "lib/f05.dart",
      "lib/f06.dart",
      "lib/f07.dart",
      "lib/f08.dart",
      "lib/f09.dart",
      "lib/f10.dart",
      "lib/f11.dart",
      "lib/f12.dart",
      "lib/f13.dart",
      "lib/f14.dart",
      "lib/f15.dart",
      "lib/f16.dart",
      "lib/f17.dart",
      "lib/f18.dart",
      "lib/f19.dart",
      "lib/f20.dart",
      "lib/f21.dart",
      "lib/f22.dart"
    >>

\* n files that are one method each: of 51 lines in the first t, of 60 lines
\* in the others
RankTree(n, t) ==
    [k \in 1..n |->
        [path |-> RankPaths[k],
         text |-> IF k <= t
                  THEN <<<<"void f() {", 1>>, <<"x;", 49>>, <<"}", 1>>>>
                  ELSE <<<<"void f() {", 1>>, <<"x;", 58>>, <<"}", 1>>>>]]

RankTrees(max) == UNION {{RankTree(n, t) : t \in 0..n} : n \in {max - 1, max}}

\* analyze_project.py, then generate_final_report.py, on the projects of
\* long files and long methods and on those of many files
InitRank ==
    /\ tree \in ProjTrees \cup RankTrees(MaxRankFiles)
    /\ prog = <<"analyze_project", "generate_final_report">>
    /\ ms = ms_idle /\ pa = pa_new /\ pm = pm_idle /\ dc = dc_idle
    /\ reports = <<>> /\ plan = <<>> /\ unreadable = {} /\ so = so_idle /\ norm = <<>>

SpecRank == InitRank /\ [][NextProject]_vars

\* The headers of the methods both detectors are run on: a plain one, one
\* whose line opens a second block, one whose line holds the whole body
AgreeHeaders == {"void f() {", "void f() { if (a) {", "void f() {}"}

\* The line that ends the statements of the body: a statement, a blank line,
\* a comment, a closing brace followed by an opening one
AgreeInner == {"x;", "", "// {", "} else {"}

\* A header, statements up to line m - 1, the line that ends them, and the
\* lines that hold one closing brace each
AgreeText(header, inner, m, closing) ==
    <<<<header, 1>>, <<"x;", m - 2>>, <<inner, 1>>>>
    \o (IF closing = 0 THEN <<>> ELSE <<<<"}", closing>>>>) \o <<<<"", 1>>>>

AgreeTexts(over) ==
    {AgreeText(header, inner, m, closing) :
        header \in AgreeHeaders, inner \in AgreeInner,
        m \in (MethodLimit - 1)..(MethodLimit + over), closing \in 0..2}

\* analyze_methods.py, then analyze_project.py, on one file that holds one
\* long method
InitAgree ==
    InitOn({<<[path |-> "lib/a.dart", text |-> t]>> : t \in AgreeTexts(MaxOver)},
           <<"analyze_methods", "analyze_project">>)

SpecAgree == InitAgree /\ [][NextMethods]_vars

\* The most files in a project with generated files
MaxStatsFiles == 2

StatsPaths == <<"lib/a.dart", "lib/a.g.dart", "lib/b.dart">>

\* An empty file, a file of 501 lines, a file of 650 lines that holds a
\* method of 75 lines, and a file that is one method of 75 lines
StatsTexts ==
    {<<<<"", 1>>>>,
     <<<<"x;", 501>>>>,
     <<<<"x;", 100>>, <<"void f() {", 1>>, <<"x;", 73>>, <<"}", 1>>, <<"x;", 475>>>>,
     <<<<"void f() {", 1>>, <<"x;", 73>>, <<"}", 1>>>>}

\* Up to max of StatsPaths, each with one of StatsTexts
StatsTrees(max) ==
    UNION {{[k \in 1..Cardinality(S) |-> [path |-> StatsPaths[Ascending(S)[k]], text |-> tx[k]]] :
               tx \in [1..Cardinality(S) -> StatsTexts]} :
           S \in {S \in SUBSET (1..Len(StatsPaths)) : Cardinality(S) \in 1..max}}

\* analyze_project.py, and then analyze_project() once more on its analyzer:
\* analyze_file is called on every file, twice.
InitStats ==
    InitOn(StatsTrees(MaxStatsFiles), <<"analyze_project", "ProjectAnalyzer.analyze_project">>)

NextStats == PA_File \/ PA_Line \/ PA_Report \/ PA_SaveJson \/ PA_Again \/ PA_Return

SpecStats == InitStats /\ [][NextStats]_vars

\* The most files in a project of many signatures
MaxCapFiles == 3

\* The projects of up to max files, each with one of CapTexts
CapTrees(max) ==
    UNION {{[k \in 1..n |-> [path |-> DupPaths[k], text |-> tx[k]]] :
               tx \in [1..n -> CapTexts]} :
           n \in 1..max}

\* One run of analyze_dead_code.py on a project with more signatures than the
\* report keeps clusters
InitCap == InitOn(CapTrees(MaxCapFiles), <<"analyze_dead_code">>)

SpecCap == InitCap /\ [][NextDead]_vars

\* The most files in a project the SOLID analysis is run on
MaxSolidFiles == 2

SolidPaths == <<"lib/a.dart", "lib/b.dart", "lib/c.dart">>

\* The projects of up to max files, each with one of SoTexts
SolidTrees(max) ==
    UNION {{[k \in 1..n |-> [path |-> SolidPaths[k], text |-> tx[k]]] : tx \in [1..n -> SoTexts]} :
           n \in 1..max}

InitSolid == InitOn(SolidTrees(MaxSolidFiles), <<"analyze_solid">>)

SpecSolid == InitSolid /\ [][NextSolid]_vars

\* The longest header text that is normalized
MaxHeader == 5

HeaderChars == {"f", "(", " ", "\t", "\n"}

HeaderTexts == UNION {[1..n -> HeaderChars] : n \in 0..MaxHeader}

\* The normalization of lines 144-146 applied to a text, and then to its
\* own result: norm holds the text and the successive results.
DC_Normalize ==
    /\ Len(norm) \in 1..2
    /\ norm' = Append(norm, normalized(norm[Len(norm)]))
    /\ UNCHANGED <<tree, prog, ms, pa, pm, dc, reports, plan, unreadable, so>>

InitNorm ==
    /\ tree = <<>> /\ prog = <<>>
    /\ ms = ms_idle /\ pa = pa_new /\ pm = pm_idle /\ dc = dc_idle
    /\ reports = <<>> /\ plan = <<>> /\ unreadable = {} /\ so = so_idle
    /\ \E h \in HeaderTexts : norm = <<h>>

SpecNorm == InitNorm /\ [][DC_Normalize]_vars

\* The longest text that may end inside a literal or a comment
MaxTruncLines == 3

TruncVocab == {"void f() {", "}", "x;", "/* x", "s = \"x"}

TruncTexts ==
    UNION {{[k \in 1..n |-> <<v[k], 1>>] : v \in [1..n -> TruncVocab]} : n \in 1..MaxTruncLines}

\* A file that may end inside a string literal or a comment, and a file that
\* holds a whole method, scanned after it
InitTrunc ==
    /\ \E t \in TruncTexts :
          tree = <<[path |-> "lib/a.dart", text |-> t],
                   [path |-> "lib/b.dart", text |-> MethodText]>>
    /\ prog = <<"analyze_methods", "analyze_project">>
    /\ ms = ms_idle /\ pa = pa_new /\ pm = pm_idle /\ dc = dc_idle
    /\ reports = <<>> /\ plan = <<>> /\ unreadable = {} /\ so = so_idle /\ norm = <<>>

SpecTrunc == InitTrunc /\ [][NextMethods]_vars

\* The scripts run on: a step is taken whenever one is possible.
SpecTruncRuns == SpecTrunc /\ WF_vars(NextMethods)

\* -------------------------------------------------------- the properties

\* The spans analyze_method_sizes closed in the file at path
MsSpans(path) == SelectSeq(ms.spans, LAMBDA x : x.file_path = path)

\* The spans ProjectAnalyzer.analyze_methods closed in the file at path
PmSpans(path) == SelectSeq(pm.spans, LAMBDA x : x.file = path)

\* C1: a brace inside a string literal or a comment does not change the
\* nesting depth: a method of lib/a.dart ends on the same line as the method
\* that starts on that line in lib/b.dart, which is lib/a.dart without the
\* braces of its literals and comments.  Stated for both detectors, once
\* both scripts have run.
C1_LiteralBracesIgnored ==
    prog = <<>> =>
        /\ \A x \in Range(MsSpans("lib/a.dart")), y \in Range(MsSpans("lib/b.dart")) :
              x.start_line = y.start_line => x.end_line = y.end_line
        /\ \A x \in Range(PmSpans("lib/a.dart")), y \in Range(PmSpans("lib/b.dart")) :
              x.start_line = y.start_line => x.end_line = y.end_line

\* C2: every span ends at or after its start, the spans of one file come in
\* the order of their start lines and do not overlap, and after a span that
\* closed at line e the search for the next header goes on at a line > e.
C2_SpansDisjoint ==
    /\ \A k \in DOMAIN ms.spans : ms.spans[k].end_line >= ms.spans[k].start_line
    /\ \A k \in DOMAIN pm.spans : pm.spans[k].end_line >= pm.spans[k].start_line
    /\ \A p \in Paths :
          /\ \A k \in 1..(Len(MsSpans(p)) - 1) :
                MsSpans(p)[k + 1].start_line > MsSpans(p)[k].end_line
          /\ \A k \in 1..(Len(PmSpans(p)) - 1) :
                PmSpans(p)[k + 1].start_line > PmSpans(p)[k].end_line
    /\ (ms.pc = "outer" /\ MsSpans(dart_files[ms.f].path) # <<>>) =>
          LET mine == MsSpans(dart_files[ms.f].path)
          IN  ms.i + 1 > mine[Len(mine)].end_line

\* C2's case: a file in which each detector closed two spans, the second one
\* found after the first had closed.
C2_Witness ==
    /\ prog = <<>>
    /\ Len(MsSpans("lib/a.dart")) >= 2
    /\ Len(PmSpans("lib/a.dart")) >= 2

\* C3: a span is reported as an oversized method exactly if its line count,
\* end line - start line + 1, is greater than 50; the reported line count is
\* that number.
C3_ReportedIffOver50 ==
    /\ \A x \in Range(ms.spans) :
          /\ x.line_count = x.end_line - x.start_line + 1
          /\ (x \in Range(ms.methods) \cup Range(ms.all_methods)) <=> (x.line_count > 50)
    /\ Range(ms.methods) \cup Range(ms.all_methods) \subseteq Range(ms.spans)
    /\ \A x \in Range(pm.spans) :
          /\ x.lines = x.end_line - x.start_line + 1
          /\ (x \in Range(DGet(pa.violations, "methods_over_50"))) <=> (x.lines > 50)
    /\ Range(DGet(pa.violations, "methods_over_50")) \subseteq Range(pm.spans)
    /\ pa.stats.methods_over_50 = Len(DGet(pa.violations, "methods_over_50"))

\* C3's case: both detectors have closed a span of 50 lines that is not
\* reported and a span of 51 lines that is.
C3_Witness ==
    /\ prog = <<>>
    /\ \E x \in Range(ms.spans) : x.line_count = 50 /\ x \notin Range(ms.all_methods)
    /\ \E x \in Range(ms.all_methods) : x.line_count = 51
    /\ \E x \in Range(pm.spans) :
          x.lines = 50 /\ x \notin Range(DGet(pa.violations, "methods_over_50"))
    /\ \E x \in Range(DGet(pa.violations, "methods_over_50")) : x.lines = 51

\* The files whose text declares class c (class_pattern finds it), and those
\* whose text holds the name c between word boundaries
Declaring(c) == {f \in Range(tree) : c \in Range(dc_found[f.text].classes)}

Naming(c) == {f \in Range(tree) : c \in dc_used[f.text]}

Reported(c) == \E x \in Range(dc.unused_classes) : x.class = c

\* C4: a class declared in exactly one file, whose name no other analyzed
\* file holds, leaves analyze_imports_exports with a usage count of exactly
\* 1; find_unused_classes reports a class exactly if its usage count, as
\* class_usages holds it, is <= 1, and reports that count and the files of
\* its definitions.
C4_UsageCountOne ==
    /\ dc.pc \in {"find_unused_files", "find_unused_classes", "find_duplications", "report"} =>
          \A c \in ClassNames :
              (Cardinality(Declaring(c)) = 1 /\ Naming(c) \subseteq Declaring(c))
                  => dc_usage_count(dc.class_usages, c) = 1
    /\ dc.pc \in {"find_duplications", "report"} =>
          /\ \A d \in Range(dc.class_definitions) :
                Reported(d.class) <=> dc_usage_count(dc.class_usages, d.class) <= 1
          /\ \A x \in Range(dc.unused_classes) :
                /\ x.usage_count = dc_usage_count(dc.class_usages, x.class)
                /\ \E d \in Range(dc.class_definitions) :
                      d.class = x.class /\ d.files = x.defined_in

\* C4's case: of two files, one declares a class that the other does not
\* name, which ends with a count of 1 and is reported, and a class with a
\* count of 2 is not reported.
C4_Witness ==
    /\ dc.pc = "report" /\ Len(tree) = 2
    /\ \E c \in ClassNames :
          /\ Cardinality(Declaring(c)) = 1 /\ Naming(c) \subseteq Declaring(c)
          /\ dc_usage_count(dc.class_usages, c) = 1 /\ Reported(c)
    /\ \E d \in Range(dc.class_definitions) :
          dc_usage_count(dc.class_usages, d.class) = 2 /\ ~Reported(d.class)

\* C5: find_unused_files reports a file of lib exactly if it is not the
\* entry point, not a generated or export file, and no import string
\* recorded for any other file contains its basename or its relative path.
C5_DeadIffNoOtherImport ==
    dc.pc \in {"find_unused_classes", "find_duplications", "report"} =>
        \A f \in Range(dc.lib_files) :
            (f \in Range(dc.unused_files)) <=>
                /\ ~dc_skipped(f)
                /\ ~dc_is_imported(f, {i[2] : i \in {x \in dc.imports : x[1] # f}})

\* How often the files hold the normalized signature sig, and in which files
SigCount(sig) ==
    Sum([k \in 1..Len(tree) |-> Times(dc_found[tree[k].text].signatures, sig)])

SigFiles(sig) == {f.path : f \in {g \in Range(tree) : sig \in Range(dc_found[g.text].signatures)}}

AllSigs == UNION {Range(dc_found[f.text].signatures) : f \in Range(tree)}

FutureText == <<<<"Future<void> loadData(String id, bool force) {}", 1>>>>

\* C7: three files that each hold the header Future<void> loadData(String
\* id, bool force) once give exactly one cluster, with a count of 3, and two
\* such files give none; every line that the header pattern of the boundary
\* detector accepts holds a signature for find_duplications.
C7_FutureHeaderClustered ==
    dc.pc = "report" =>
        /\ (Len(tree) = 3 /\ \A f \in Range(tree) : f.text = FutureText) =>
              Len(dc.duplications) = 1 /\ dc.duplications[1].count = 3
        /\ (Len(tree) = 2 /\ \A f \in Range(tree) : f.text = FutureText) =>
              dc.duplications = <<>>
        /\ \A f \in Range(tree) :
              (\E k \in 1..NumLines(f.text) : ms_match[LineAt(f.text, k)] # NoMatch)
                  => dc_found[f.text].signatures # <<>>

\* The impact score of a file by its line count and the line counts of the
\* spans analyze_methods closed in it
ImpactScore(f) ==
    LET line_count == NumLines(f.text)
        over == SelectSeq(pm.spans, LAMBDA x : x.file = f.path /\ x.lines > 50)
    IN  (IF line_count > 500 THEN ((line_count - 500) \div 100) * 10 ELSE 0)
        + Sum([k \in 1..Len(over) |-> (over[k].lines - 50) \div 10])

FileAt(path) == CHOOSE f \in Range(tree) : f.path = path

\* C8: the impact score of a ranked file is floor((line_count - 500) / 100)
\* * 10 if it has more than 500 lines, plus floor((lines - 50) / 10) for each
\* of its methods of more than 50 lines, and nothing else; the ranked files
\* are those with a file or a method over its limit.
C8_ImpactScore ==
    pm.pc \in {"report", "done"} =>
        /\ \A k \in DOMAIN pm.ranking :
              pm.ranking[k].score = ImpactScore(FileAt(pm.ranking[k].file))
        /\ Len(tree) <= TopFiles =>
              {pm.ranking[k].file : k \in DOMAIN pm.ranking} =
                  {f.path : f \in {g \in Range(tree) :
                      \/ NumLines(g.text) > 500
                      \/ \E x \in Range(pm.spans) : x.file = g.path /\ x.lines > 50}}

\* C8's case: a file of 650 lines with one method of 75 lines is ranked with
\* a score of 10 + 2.
C8_Witness ==
    /\ pm.pc = "done"
    /\ \E k \in DOMAIN pm.ranking :
          /\ NumLines(FileAt(pm.ranking[k].file).text) = 650
          /\ \E x \in Range(pm.spans) : x.file = pm.ranking[k].file /\ x.lines = 75
          /\ pm.ranking[k].score = 12

\* The place of the file at path in the order of the scan
Discovered(path) == CHOOSE k \in DOMAIN tree : tree[k].path = path

\* C9: the ranking of generate_report, and that of generate_refactoring_plan,
\* is in descending order of score, and files of equal score are in the order
\* in which the scan analyzed them.
C9_TiesInDiscoveryOrder ==
    /\ pm.pc \in {"report", "done"} =>
          \A j, k \in DOMAIN pm.ranking : j < k =>
              /\ pm.ranking[j].score >= pm.ranking[k].score
              /\ pm.ranking[j].score = pm.ranking[k].score =>
                    Discovered(pm.ranking[j].file) < Discovered(pm.ranking[k].file)
    /\ \A j, k \in DOMAIN plan : j < k =>
          /\ plan[j].score >= plan[k].score
          /\ plan[j].score = plan[k].score =>
                Discovered(plan[j].file) < Discovered(plan[k].file)

\* C10: two runs of analyze_dead_code.py on the same files report the same
\* dead files, dead classes with their usage counts and duplicate clusters
\* with their file lists, each in the same order, whatever the order in which
\* each run enumerates the files.
C10_RunsAgree == Len(reports) = 2 => reports[1] = reports[2]

\* The files analyze_project analyzes
Analyzed == {f \in Range(tree) : ~is_excluded(f.path)}

\* C11: a scan run a second time on the same analyzer object gives what one
\* scan gives: the file lists hold every file once, the second report of the
\* DeadCodeAnalyzer has the dead files, the classes with their usage counts
\* and the duplicate clusters of the first, and the stats and violations of
\* the ProjectAnalyzer are those of one scan.
C11_RescanSameAsOnce ==
    /\ (Len(reports) = 2 /\ dc.pc = "main") =>
          /\ Len(dc.lib_files) = Cardinality(Range(dc.lib_files))
          /\ Len(dc.test_files) = Cardinality(Range(dc.test_files))
          /\ Range(reports[2].unused_files) = Range(reports[1].unused_files)
          /\ Len(reports[2].unused_files) = Len(reports[1].unused_files)
          /\ Range(reports[2].unused_classes) = Range(reports[1].unused_classes)
          /\ {<<x.signature, x.count>> : x \in Range(reports[2].duplications)}
                = {<<x.signature, x.count>> : x \in Range(reports[1].duplications)}
    /\ prog = <<>> =>
          /\ pa.stats.total_files = Cardinality(Analyzed)
          /\ pa.stats.total_lines = Sum([k \in 1..Len(tree) |->
                IF is_excluded(tree[k].path) THEN 0 ELSE NumLines(tree[k].text)])
          /\ pa.violations = pm.json.violations

\* C12: a file that cannot be read is not fatal: each script completes its
\* batch and has the results of every file it could read. analyze_methods.py
\* reaches its sort, analyze_dead_code.py and analyze_solid.py their report,
\* and analyze_project.py its report and save_json with the stats of all the readable files.
C12_ReadFailureNotFatal ==
    prog = <<>> =>
        /\ ms.pc = "done"
        /\ Len(reports) = 1
        /\ so.pc = "done"
        /\ pm.pc = "done"
        /\ pa.stats.total_files = Cardinality({f \in Analyzed : f.path \notin unreadable})

\* C13: a file that ends inside an unterminated string literal or comment
\* after a method header is flagged (the script prints a message that names
\* it), no span of it ends on or after the line where the unterminated
\* literal or comment begins, and the scripts still scan the other file.
C13_TruncationFlagged ==
    prog = <<>> =>
        /\ ms.pc = "done" /\ pm.pc = "done"
        /\ Len(MsSpans("lib/b.dart")) = 1 /\ Len(PmSpans("lib/b.dart")) = 1
        /\ \A f \in Range(tree) :
              (/\ Truncated(f.text)
               /\ \E k \in 1..EndMode(f.text).at : ms_match[LineAt(f.text, k)] # NoMatch) =>
                  /\ f.path \in Range(ms.errors)
                  /\ \A x \in Range(MsSpans(f.path)) : x.end_line < EndMode(f.text).at
                  /\ \A x \in Range(PmSpans(f.path)) : x.end_line < EndMode(f.text).at

\* C14: normalizing a header text that is already normalized changes
\* nothing: the second application of strip-then-collapse returns its
\* argument, for every text.
C14_NormalizationIdempotent == Len(norm) = 3 => norm[3] = norm[2]

\* A text with whitespace at an end and a run of whitespace inside, normalized
\* twice.
C14_Witness ==
    /\ Len(norm) = 3
    /\ norm[1] = <<" ", "f", "\t", "\n", "(">>
    /\ norm[2] = <<"f", " ", "(">>

\* Every violation the SOLID analysis has appended
SoAll == so.srp \o so.dip \o so.ocp

\* The violations of one check appended for one file
SoCount(path, check) ==
    Cardinality({k \in DOMAIN SoAll : SoAll[k].file = path /\ SoAll[k].reason[1] = check})

SoSeverity ==
    [responsibilities |-> "high", public_methods |-> "medium", imports |-> "low",
     concrete_classes |-> "medium", case_count |-> "medium"]

\* The condition under which the code takes the branch of a check
SoFires(m, check) ==
    /\ m.class_names # <<>>
    /\ CASE check = "responsibilities" -> responsibilities(m.class_names[1]) > 1
         [] check = "public_methods" -> m.public_methods > SrpMethodLimit
         [] check = "imports" -> m.imports > SrpImportLimit
         [] check = "concrete_classes" -> m.concrete_classes > DipLimit
         [] check = "case_count" -> \E k \in DOMAIN m.case_counts : m.case_counts[k] > OcpLimit

\* C15: when the SOLID analysis is done, each check that fired for a file has
\* appended exactly one violation for it and each other check none, every
\* violation has the severity of its check (role overlap high, method count
\* medium, import count low, DIP medium, OCP medium), a severity among low,
\* medium and high, and the size statistics and the plan are untouched.
C15_OneViolationPerCheck ==
    so.pc = "done" =>
        /\ \A f \in Range(dart_files) : \A check \in DOMAIN SoSeverity :
              SoCount(f.path, check) = IF SoFires(so_found[f.text], check) THEN 1 ELSE 0
        /\ \A v \in Range(SoAll) :
              v.severity = SoSeverity[v.reason[1]] /\ v.severity \in {"low", "medium", "high"}
        /\ pa = pa_new /\ pm = pm_idle /\ plan = <<>>

\* C18: when the SOLID analysis is done, a file has a method-count violation
\* iff it has more than 15 public methods, an import-count violation iff it
\* has more than 20 imports, a role-overlap violation iff one of its class
\* names holds more than one role keyword, a DIP violation iff it has more
\* than 5 concrete instantiations and an OCP violation iff one of its
\* switches has more than 5 cases, with or without a class declaration.
C18_ChecksIndependent ==
    so.pc = "done" =>
        \A f \in Range(dart_files) :
            LET m == so_found[f.text] IN
            /\ SoCount(f.path, "public_methods") > 0 <=> m.public_methods > SrpMethodLimit
            /\ SoCount(f.path, "imports") > 0 <=> m.imports > SrpImportLimit
            /\ SoCount(f.path, "responsibilities") > 0
                 <=> \E k \in DOMAIN m.class_names : responsibilities(m.class_names[k]) > 1
            /\ SoCount(f.path, "concrete_classes") > 0 <=> m.concrete_classes > DipLimit
            /\ SoCount(f.path, "case_count") > 0
                 <=> \E k \in DOMAIN m.case_counts : m.case_counts[k] > OcpLimit

\* C16: once analyze_imports_exports has returned, the usage count of every
\* declared class is the number of analyzed files whose content holds its
\* name between word boundaries, in whatever order the files were read.
C16_UsageCountIsFileCount ==
    dc.pc \in {"find_unused_files", "find_unused_classes", "find_duplications", "report"} =>
        \A d \in Range(dc.class_definitions) :
            dc_usage_count(dc.class_usages, d.class) = Cardinality(Naming(d.class))

\* C17: find_duplications returns every reportable cluster, also when there
\* are more than 30 of them: the signatures of the returned clusters are the
\* signatures longer than 30 characters with more than 2 occurrences.
C17_AllClustersReturned ==
    dc.pc = "report" =>
        {x.signature : x \in Range(dc.duplications)}
            = {sig \in AllSigs : SigCount(sig) > 2 /\ Len(sig) > 30}

\* C19: when the scripts are done, a file that could not be read is recorded
\* as skipped (the message of analyze_method_sizes names it) and has no entry
\* in any result: no import, no class definition, no span, no SOLID
\* violation and no entry among the unused files.
C19_UnreadableSkipped ==
    prog = <<>> =>
        \A f \in Range(tree) :
            f.path \in unreadable =>
                /\ IsLib(f) => f.path \in Range(ms.errors)
                /\ \A i \in dc.imports : i[1] # f.path
                /\ \A d \in Range(dc.class_definitions) : f.path \notin Range(d.files)
                /\ MsSpans(f.path) = <<>>
                /\ \A v \in Range(SoAll) : v.file # f.path
                /\ \A r \in Range(reports) : f.path \notin Range(r.unused_files)

\* C20: ProjectAnalyzer.generate_report leaves stats and violations as they
\* were, with the same keys and the same records, so that save_json writes
\* the same data before and after it.
C20_ReportLeavesDataUnchanged ==
    [][(pm.pc = "files" /\ pm'.pc = "report") => pa' = pa]_vars

\* C21: analyze_method_sizes terminates on every file. A turn of the outer
\* loop on a line that is no header moves the line index by 1, the turn that
\* follows a header leaves it after the header and within the file, and a
\* method whose braces do not balance before the end of the file gets a span
\* that ends on the last line; the script reaches its end.
C21_OuterLoopAdvances ==
    /\ [][/\ (ms.pc = "outer" /\ ms'.pc = "outer") => ms'.i = ms.i + 1
          /\ (ms.pc = "inner" /\ ms'.pc = "outer") =>
                /\ ms'.i > ms.i /\ ms'.i <= NumLines(ms_lines)
                /\ ms.brace_count > 0 =>
                      ms'.spans[Len(ms'.spans)].end_line = NumLines(ms_lines)]_vars
    /\ <>(ms.pc = "done")

\* A header whose braces never balance, in a file of three lines, with its
\* span up to the third line, and the script at its end.
C21_Witness ==
    /\ ms.pc = "done"
    /\ tree[1].text = <<<<"void f() {", 1>>, <<"x;", 1>>, <<"x;", 1>>>>
    /\ \E x \in Range(MsSpans("lib/a.dart")) : x.start_line = 1 /\ x.end_line = 3

\* C22: after any calls of analyze_file, stats['files_over_500'] is the
\* number of records of violations['files_over_500'] and
\* stats['methods_over_50'] that of violations['methods_over_50'],
\* files_over_500 <= total_files <= total_lines, every file-size record has
\* excess = lines - 500 > 0, and the call on an excluded file (a generated
\* .g.dart file) changes neither stats nor violations.
C22_StatsMatchRecords ==
    /\ [](/\ pa.stats.files_over_500 = Len(DGet(pa.violations, "files_over_500"))
          /\ pa.stats.methods_over_50 = Len(DGet(pa.violations, "methods_over_50"))
          /\ pa.stats.files_over_500 <= pa.stats.total_files
          /\ pa.stats.total_files <= pa.stats.total_lines
          /\ \A x \in Range(DGet(pa.violations, "files_over_500")) :
                x.excess = x.lines - FileLimit /\ x.excess > 0)
    /\ [][(/\ pm.pc = "files" /\ pm.f <= Len(tree)
           /\ EndsWith(Chars[tree[pm.f].path], Chars[".g.dart"])) => pa' = pa]_vars

\* After the two passes over a file of 650 lines with a method of 75 lines
\* and a generated file of 501 lines: two file records and two method
\* records, all of the first file.
C22_Witness ==
    /\ prog = <<>>
    /\ Len(tree) = 2 /\ tree[2].path = "lib/a.g.dart" /\ NumLines(tree[2].text) = 501
    /\ pa.stats.total_files = 2 /\ pa.stats.total_lines = 1300
    /\ Len(DGet(pa.violations, "files_over_500")) = 2
    /\ Len(DGet(pa.violations, "methods_over_50")) = 2

\* C23: while analyze_imports_exports runs and after it, the usage count of
\* every declared class is at least the number of distinct files of its
\* definitions and at most the number of files processed; a class that
\* find_unused_classes reports has a usage count of exactly 1, and a class
\* declared in two or more different files is not reported.
C23_UsageCountBounds ==
    /\ dc.pc \in {"analyze", "find_unused_files", "find_unused_classes",
                  "find_duplications", "report"} =>
          \A d \in Range(dc.class_definitions) :
              /\ Cardinality(Range(d.files)) <= dc_usage_count(dc.class_usages, d.class)
              /\ dc_usage_count(dc.class_usages, d.class)
                    <= IF dc.pc = "analyze" THEN dc.k - 1 ELSE Len(all_files)
    /\ dc.pc \in {"find_duplications", "report"} =>
          /\ \A x \in Range(dc.unused_classes) : x.usage_count = 1
          /\ \A d \in Range(dc.class_definitions) :
                Cardinality(Range(d.files)) >= 2 => ~Reported(d.class)

\* A class declared in two files, with a usage count of 2, that is not
\* reported.
C23_Witness ==
    /\ dc.pc = "report"
    /\ \E d \in Range(dc.class_definitions) :
          /\ Cardinality(Range(d.files)) = 2
          /\ dc_usage_count(dc.class_usages, d.class) = 2
          /\ ~Reported(d.class)

\* C24: once generate_refactoring_plan has ranked the files from the saved
\* JSON, its rows and those of ProjectAnalyzer.generate_report hold the same
\* files with the same scores in the same order, ties included, 20 at most.
C24_RankingsAgree ==
    prog = <<>> =>
        /\ Len(plan) = Len(pm.ranking) /\ Len(plan) <= TopFiles
        /\ \A k \in DOMAIN plan :
              plan[k].file = pm.ranking[k].file /\ plan[k].score = pm.ranking[k].score

\* 21 files, the first two with the lower score: both tables hold 20 rows,
\* start with the third file and end with the first, and leave the second
\* out.
C24_Witness ==
    /\ prog = <<>>
    /\ Len(tree) = 21 /\ NumLines(tree[2].text) = 51 /\ NumLines(tree[3].text) = 60
    /\ Len(plan) = 20 /\ Len(pm.ranking) = 20
    /\ plan[1].file = tree[3].path /\ plan[1].score = 1
    /\ plan[20].file = tree[1].path /\ plan[20].score = 0

\* The methods analyze_method_sizes reports for the file at path
MsReported(path) ==
    {[method |-> x.method_name, start_line |-> x.start_line,
      end_line |-> x.end_line, lines |-> x.line_count] :
        x \in {y \in Range(ms.all_methods) : y.file_path = path}}

\* The methods ProjectAnalyzer.analyze_methods reports for the file at path
PaReported(path) ==
    {[method |-> v.method, start_line |-> v.start_line,
      end_line |-> v.end_line, lines |-> v.lines] :
        v \in {y \in Range(DGet(pa.violations, "methods_over_50")) : y.file = path}}

\* C25: once both scripts have run, analyze_method_sizes and
\* ProjectAnalyzer.analyze_methods have reported, for every file, the same
\* oversized methods: the same names, start lines, end lines and line counts.
C25_DetectorsAgree ==
    prog = <<>> =>
        \A k \in DOMAIN tree : MsReported(tree[k].path) = PaReported(tree[k].path)

====
